---- MODULE Spec2Model ----
(***************************************************************************)
(* Activity tracker: the session aggregator of                             *)
(* src/main/tracker/database.ts (class ActivityDatabase) and the           *)
(* notification scheduler of src/main/notifications.ts (class              *)
(* NotificationManager).                                                   *)
(***************************************************************************)
EXTENDS Integers, Sequences, FiniteSets, TLC

(***************************************************************************)
(* Bounds of the model.                                                    *)
(***************************************************************************)
\* number of insertActivity calls explored
MaxActs == 3

\* app names the window sample source reports
Apps == {"Editor", "Browser"}
\* the null of a nullable text column / string field
NullStr == "null"
\* the classifier collaborator: the category of a sample
Classify(appName) == IF appName = "Editor" THEN "development" ELSE NullStr
\* start_time and end_time values of a sample (ms)
Times == {0, 1}
\* values of the duration field of a sample (ms)
Durations == {0, 1}

\* null / falsy value of the currentSessionId field (ids start at 1)
NoSession == 0

\* minutes of wall-clock time explored after construction
MaxElapsedMin == 8
\* number of notifications shown that are explored
MaxShown == 3

\* milliseconds per minute
MinuteMs == 60000
\* break_interval_minutes when the setting is absent or invalid
DefaultBreakMinutes == 60
\* minimum minutes between two break notifications
BreakGuardMinutes == 5
\* null value of a timer handle field (handles are numbered from 1)
NoTimer == 0
\* Date.now() at construction: 17:00 local time of the second day counted
\* from a local midnight
StartNow == (24 + 17) * 60 * MinuteMs

\* hours of wall-clock time explored after construction, in hourly steps
MaxElapsedHours == 8
\* number of tracked samples explored next to the daily summary and goals
MaxTracked == 1

\* milliseconds per hour and per day
HourMs == 60 * MinuteMs
DayMs == 24 * HourMs
\* daily_summary_hour when the setting is absent or invalid
DefaultSummaryHour == 18
\* the last valid daily_summary_hour
MaxSummaryHour == 23
\* tracked time under which the daily summary is skipped (ms)
MinTrackedMs == 60000
\* a tracked sample too short for the daily summary (ms)
TrackedMs == 45000
\* the durations of the samples tracked next to the daily summary and goals
TrackedDurations == {TrackedMs, MinTrackedMs}
\* the value of a property an object does not have
Undefined == "undefined"

VARIABLES
    \* rows of the sessions table, in id order
    sessions,
    \* rows of the activities table, in id (= insertion) order
    activities,
    \* ActivityDatabase.currentSessionId
    currentSessionId,
    \* ActivityDatabase.currentSessionAppName
    currentSessionAppName,
    \* the insertActivity call in progress: the statement it runs next, its
    \* argument and the session id it obtained
    pending,
    \* Date.now(), in ms
    now,
    \* the settings table: key -> stored string, NullStr when absent
    settings,
    \* the event loop's pending setTimeout tasks
    timers,
    \* NotificationManager.breakTimer
    breakTimer,
    \* NotificationManager.lastBreakNotification
    lastBreakNotification,
    \* the notifications shown so far, oldest first
    shown,
    \* NotificationManager.dailySummaryTimer
    dailySummaryTimer,
    \* NotificationManager.dailySummaryShownToday
    dailySummaryShownToday,
    \* NotificationManager.lastSummaryDate
    lastSummaryDate,
    \* the runs of the daily-summary callback so far: when, and how each ended
    firings,
    \* Date.now() when this NotificationManager was constructed
    started

dbVars == <<sessions, activities, currentSessionId, currentSessionAppName,
            pending>>
summaryVars ==
    <<dailySummaryTimer, dailySummaryShownToday, lastSummaryDate, firings,
      started>>
notifVars == <<now, settings, timers, breakTimer, lastBreakNotification, shown,
               dailySummaryTimer, dailySummaryShownToday, lastSummaryDate,
               firings, started>>
vars == <<sessions, activities, currentSessionId, currentSessionAppName,
          pending,
          now, settings, timers, breakTimer, lastBreakNotification, shown,
          dailySummaryTimer, dailySummaryShownToday, lastSummaryDate,
          firings, started>>

(***************************************************************************)
(* Generic helpers over the rows of a table.                               *)
(***************************************************************************)
RECURSIVE SumDuration(_)
\* sum(duration) over a sequence of activity rows
SumDuration(rows) ==
    IF rows = <<>> THEN 0
    ELSE rows[1].duration + SumDuration(Tail(rows))

\* the activities that reference a session
ActivitiesOf(acts, sessionId) ==
    SelectSeq(acts, LAMBDA a : a.session_id = sessionId)

(***************************************************************************)
(* The arguments of insertActivity: the three time fields are independent  *)
(* numbers, the function checks none of them.                              *)
(***************************************************************************)
ActivityInputs ==
    {[app_name |-> p, category |-> Classify(p),
      start_time |-> st, end_time |-> et, duration |-> d] :
        p \in Apps, st \in Times, et \in Times, d \in Durations}

(***************************************************************************)
(* ActivityDatabase: the write side.                                       *)
(***************************************************************************)
\* a createSession that already counts the activity about to be inserted
createSessionCounted(ss, appName, category, startTime) ==
    Append(ss, [id |-> Len(ss) + 1,
                app_name |-> appName,
                category |-> category,
                start_time |-> startTime,
                end_time |-> startTime,
                total_duration |-> 0,
                activity_count |-> 1])

\* createSession: INSERT a row with AUTOINCREMENT id, returning the table
createSession(ss, appName, category, startTime) ==
    Append(ss, [id |-> Len(ss) + 1,
                app_name |-> appName,
                category |-> category,
                start_time |-> startTime,
                end_time |-> startTime,
                total_duration |-> 0,
                activity_count |-> 0])

\* an updateSession that assigns the duration instead of adding it
updateSessionOverwrite(ss, sessionId, endTime, duration) ==
    [i \in DOMAIN ss |->
        IF ss[i].id = sessionId
        THEN [ss[i] EXCEPT !.end_time = endTime,
                           !.total_duration = duration,
                           !.activity_count = @ + 1]
        ELSE ss[i]]

\* an updateSession that only ever moves end_time forward
updateSessionMaxEnd(ss, sessionId, endTime, duration) ==
    [i \in DOMAIN ss |->
        IF ss[i].id = sessionId
        THEN [ss[i] EXCEPT !.end_time = IF endTime > @ THEN endTime ELSE @,
                           !.total_duration = @ + duration,
                           !.activity_count = @ + 1]
        ELSE ss[i]]

\* an updateSession that leaves out a sample that ends before the session
\* does
updateSessionSkipsLate(ss, sessionId, endTime, duration) ==
    [i \in DOMAIN ss |->
        IF ss[i].id = sessionId /\ endTime >= ss[i].end_time
        THEN [ss[i] EXCEPT !.end_time = endTime,
                           !.total_duration = @ + duration,
                           !.activity_count = @ + 1]
        ELSE ss[i]]

\* an updateSession whose statement writes the count and leaves the rest to
\* a second statement
updateSessionCountOnly(ss, sessionId, endTime, duration) ==
    [i \in DOMAIN ss |->
        IF ss[i].id = sessionId
        THEN [ss[i] EXCEPT !.activity_count = @ + 1]
        ELSE ss[i]]

\* updateSession: one UPDATE ... WHERE id = sessionId
updateSession(ss, sessionId, endTime, duration) ==
    [i \in DOMAIN ss |->
        IF ss[i].id = sessionId
        THEN [ss[i] EXCEPT !.end_time = endTime,
                           !.total_duration = @ + duration,
                           !.activity_count = @ + 1]
        ELSE ss[i]]

\* a test with the app comparison inverted
ReuseOtherApp(curId, curApp, appName) ==
    curId # NoSession /\ curApp # appName

\* a test that takes the open session whatever its app
ReuseAnyOpen(curId, curApp, appName) == curId # NoSession

\* the test of getOrCreateSession: an active session for the same app
ReuseOpenSession(curId, curApp, appName) ==
    curId # NoSession /\ curApp = appName

\* a getOrCreateSession that looks the app up in the sessions table and
\* reopens its latest Session instead of creating one
getOrCreateSessionReopen(ss, curId, curApp, appName, category, startTime) ==
    LET same == {i \in DOMAIN ss : ss[i].app_name = appName}
    IN IF curId # NoSession /\ curApp = appName
       THEN [sessionId |-> curId, sessions |-> ss,
             currentSessionId |-> curId, currentSessionAppName |-> curApp]
       ELSE IF same # {}
       THEN LET last == CHOOSE i \in same : \A j \in same : j <= i
            IN [sessionId |-> ss[last].id, sessions |-> ss,
                currentSessionId |-> ss[last].id,
                currentSessionAppName |-> appName]
       ELSE LET created == Append(ss, [id |-> Len(ss) + 1,
                                       app_name |-> appName,
                                       category |-> category,
                                       start_time |-> startTime,
                                       end_time |-> startTime,
                                       total_duration |-> 0,
                                       activity_count |-> 0])
            IN [sessionId |-> Len(ss) + 1, sessions |-> created,
                currentSessionId |-> Len(ss) + 1,
                currentSessionAppName |-> appName]

\* getOrCreateSession as a function of the state it reads: the session id it
\* returns, the sessions table and the open-session pointer it leaves
getOrCreateSessionResult(ss, curId, curApp, appName, category, startTime) ==
    IF ReuseOpenSession(curId, curApp, appName)
    THEN [sessionId |-> curId, sessions |-> ss,
          currentSessionId |-> curId, currentSessionAppName |-> curApp]
    ELSE LET created == createSession(ss, appName, category, startTime)
             newId == created[Len(created)].id
         IN [sessionId |-> newId, sessions |-> created,
             currentSessionId |-> newId, currentSessionAppName |-> appName]

\* no insertActivity call is in progress
NoCall == [pc |-> "idle"]

\* the row insertActivity adds to the activities table
ActivityRow(acts, sessionId, a) ==
    [id |-> Len(acts) + 1,
     session_id |-> sessionId,
     app_name |-> a.app_name,
     category |-> a.category,
     start_time |-> a.start_time,
     end_time |-> a.end_time,
     duration |-> a.duration]

\* insertActivity as a function of the state it reads
insertActivityResult(ss, acts, curId, curApp, a) ==
    LET g == getOrCreateSessionResult(ss, curId, curApp,
                                      a.app_name, a.category, a.start_time)
    IN [sessions |-> updateSession(g.sessions, g.sessionId,
                                   a.end_time, a.duration),
        activities |-> Append(acts, ActivityRow(acts, g.sessionId, a)),
        currentSessionId |-> g.currentSessionId,
        currentSessionAppName |-> g.currentSessionAppName]

\* insertActivity(activity)
insertActivity(a) ==
    /\ Len(SelectSeq(activities, LAMBDA r : r.session_id # NoSession)) < MaxActs
    /\ LET r == insertActivityResult(sessions, activities, currentSessionId,
                                     currentSessionAppName, a)
       IN /\ sessions' = r.sessions
          /\ activities' = r.activities
          /\ currentSessionId' = r.currentSessionId
          /\ currentSessionAppName' = r.currentSessionAppName
    /\ UNCHANGED <<notifVars, pending>>

\* a closeCurrentSession that clears the id and forgets the app name field
closeKeepsAppName(ss, acts, curId, curApp) ==
    [sessions |-> ss,
     activities |-> acts,
     currentSessionId |-> NoSession,
     currentSessionAppName |-> curApp]

\* a closeCurrentSession that also stamps the open Session row as ended, at
\* start_time + total_duration
closeStampsEnd(ss, acts, curId, curApp) ==
    [sessions |-> [i \in DOMAIN ss |->
                      IF ss[i].id = curId
                      THEN [ss[i] EXCEPT !.end_time =
                               ss[i].start_time + ss[i].total_duration]
                      ELSE ss[i]],
     activities |-> acts,
     currentSessionId |-> NoSession,
     currentSessionAppName |-> NullStr]

\* closeCurrentSession as a function of the state: it assigns the two
\* pointer fields and runs no statement on either table
closeCurrentSessionResult(ss, acts, curId, curApp) ==
    [sessions |-> ss,
     activities |-> acts,
     currentSessionId |-> NoSession,
     currentSessionAppName |-> NullStr]

\* closeCurrentSession()
closeCurrentSession ==
    LET r == closeCurrentSessionResult(sessions, activities, currentSessionId,
                                       currentSessionAppName)
    IN /\ sessions' = r.sessions
       /\ activities' = r.activities
       /\ currentSessionId' = r.currentSessionId
       /\ currentSessionAppName' = r.currentSessionAppName
       /\ UNCHANGED <<notifVars, pending>>

(***************************************************************************)
(* insertActivity statement by statement: each statement commits on its    *)
(* own, so a reader of the tables can see the state between two of them.   *)
(***************************************************************************)
\* insertActivity(a) is entered and runs getOrCreateSession
insertActivityBegin(a) ==
    /\ pending.pc = "idle"
    /\ Len(SelectSeq(activities, LAMBDA r : r.session_id # NoSession)) < MaxActs
    /\ LET g == getOrCreateSessionResult(sessions, currentSessionId,
                                         currentSessionAppName, a.app_name,
                                         a.category, a.start_time)
       IN /\ sessions' = g.sessions
          /\ currentSessionId' = g.currentSessionId
          /\ currentSessionAppName' = g.currentSessionAppName
          /\ pending' = [pc |-> "insert", sample |-> a,
                         sessionId |-> g.sessionId]
    /\ UNCHANGED <<activities, notifVars>>

\* the INSERT INTO activities of the call in progress
insertActivityRow ==
    /\ pending.pc = "insert"
    /\ activities' = Append(activities,
                            ActivityRow(activities, pending.sessionId,
                                        pending.sample))
    /\ pending' = [pending EXCEPT !.pc = "update"]
    /\ UNCHANGED <<sessions, currentSessionId, currentSessionAppName,
                   notifVars>>

\* the updateSession of the call in progress, after which it returns
insertActivityUpdate ==
    /\ pending.pc = "update"
    /\ sessions' = updateSession(sessions, pending.sessionId,
                                 pending.sample.end_time,
                                 pending.sample.duration)
    /\ pending' = NoCall
    /\ UNCHANGED <<activities, currentSessionId, currentSessionAppName,
                   notifVars>>

\* closeCurrentSession() between two calls of insertActivity
closeBetweenCalls ==
    /\ pending.pc = "idle"
    /\ closeCurrentSession

(***************************************************************************)
(* ActivityDatabase: the queries the NotificationManager runs.             *)
(***************************************************************************)
\* WHERE start_time >= startTime AND start_time <= endTime
ActivitiesInRange(acts, startTime, endTime) ==
    SelectSeq(acts, LAMBDA a : a.start_time >= startTime
                                /\ a.start_time <= endTime)

\* a getTotalTrackedTime whose range leaves out its upper end
getTotalTrackedTimeExclusive(acts, startTime, endTime) ==
    SumDuration(SelectSeq(acts, LAMBDA a : a.start_time >= startTime
                                            /\ a.start_time < endTime))

\* getTotalTrackedTime: sum(duration) over the range, 0 for no row
getTotalTrackedTime(acts, startTime, endTime) ==
    SumDuration(ActivitiesInRange(acts, startTime, endTime))

RECURSIVE SortDescBy(_, _)
\* ORDER BY field DESC over the rows of a result; SQL leaves the order of
\* rows with equal keys open, here one such order is taken
SortDescBy(rows, field) ==
    IF rows = {} THEN <<>>
    ELSE LET m == CHOOSE x \in rows : \A y \in rows : y[field] <= x[field]
         IN <<m>> \o SortDescBy(rows \ {m}, field)

\* getAppUsage: one row {app_name, total_duration, session_count} per app of
\* the range, the largest total first
getAppUsage(acts, startTime, endTime) ==
    LET rows == ActivitiesInRange(acts, startTime, endTime)
        of(p) == SelectSeq(rows, LAMBDA a : a.app_name = p)
    IN SortDescBy({[app_name |-> p,
                    total_duration |-> SumDuration(of(p)),
                    session_count |-> Len(of(p))] :
                       p \in {rows[i].app_name : i \in DOMAIN rows}},
                  "total_duration")

\* a getCategoryBreakdown that orders its rows the other way round
getCategoryBreakdownAscending(acts, startTime, endTime) ==
    LET rows == ActivitiesInRange(acts, startTime, endTime)
        of(c) == SelectSeq(rows, LAMBDA a : a.category = c)
        d == SortDescBy({[category |-> c,
                          total_duration |-> SumDuration(of(c)),
                          session_count |-> Len(of(c))] :
                             c \in {rows[i].category : i \in DOMAIN rows}},
                        "total_duration")
    IN [i \in DOMAIN d |-> d[Len(d) + 1 - i]]

\* getCategoryBreakdown: one row {category, total_duration, session_count}
\* per category of the range (GROUP BY puts the null categories in one
\* group), the largest total first
getCategoryBreakdown(acts, startTime, endTime) ==
    LET rows == ActivitiesInRange(acts, startTime, endTime)
        of(c) == SelectSeq(rows, LAMBDA a : a.category = c)
    IN SortDescBy({[category |-> c,
                    total_duration |-> SumDuration(of(c)),
                    session_count |-> Len(of(c))] :
                       c \in {rows[i].category : i \in DOMAIN rows}},
                  "total_duration")

\* a getSessionsWithActivities that hands every activity of the range to
\* every session
getSessionsWithActivitiesUngrouped(ss, acts, startTime, endTime) ==
    LET sessionRows ==
            SortDescBy({ss[i] : i \in {j \in DOMAIN ss :
                                          /\ ss[j].start_time >= startTime
                                          /\ ss[j].start_time <= endTime}},
                       "start_time")
        inRange == ActivitiesInRange(acts, startTime, endTime)
        activityRows == SortDescBy({inRange[i] : i \in DOMAIN inRange},
                                   "start_time")
    IN [i \in DOMAIN sessionRows |->
            sessionRows[i] @@ [activities |-> activityRows]]

\* getSessionsWithActivities: the sessions that start in the range, newest
\* first, each with the activities of the range whose session_id ?? 0 is its
\* id, newest first
getSessionsWithActivities(ss, acts, startTime, endTime) ==
    LET sessionRows ==
            SortDescBy({ss[i] : i \in {j \in DOMAIN ss :
                                          /\ ss[j].start_time >= startTime
                                          /\ ss[j].start_time <= endTime}},
                       "start_time")
        inRange == ActivitiesInRange(acts, startTime, endTime)
        activityRows == SortDescBy({inRange[i] : i \in DOMAIN inRange},
                                   "start_time")
        activitiesBySession(sessionId) ==
            SelectSeq(activityRows, LAMBDA a : a.session_id = sessionId)
    IN [i \in DOMAIN sessionRows |->
            sessionRows[i] @@
            [activities |-> activitiesBySession(sessionRows[i].id)]]

(***************************************************************************)
(* The settings store read by the NotificationManager (db.getSetting).     *)
(***************************************************************************)
SettingKeys ==
    {"notifications_enabled", "break_reminders_enabled",
     "break_interval_minutes", "daily_summary_enabled", "daily_summary_hour",
     "daily_goals", "goals_notified_today",
     "pomodoro_notifications_enabled"}

\* the keys of the break reminder, of the daily summary and of the goals
BreakKeys ==
    {"notifications_enabled", "break_reminders_enabled",
     "break_interval_minutes"}
SummaryKeys ==
    {"notifications_enabled", "daily_summary_enabled", "daily_summary_hour"}
GoalKeys == {"daily_goals"}
PomodoroKeys == {"notifications_enabled", "pomodoro_notifications_enabled"}

\* local calendar date of a time, as Date.toDateString() tells dates apart
DateString(t) == ToString(t \div DayMs)
\* new Date().setHours(0, 0, 0, 0): the local midnight before t
StartOfDay(t) == (t \div DayMs) * DayMs
\* the local dates of the explored time span
Dates ==
    {ToString(d) : d \in (StartNow \div DayMs) ..
                         ((StartNow + (MaxElapsedHours + 1) * HourMs)
                              \div DayMs + 1)}

\* categories a Goal can name
GoalCategories == {"development", "writing"}
\* the Goal lists the settings page stores under daily_goals
GoalLists ==
    {<<[categoryName |-> "development", targetMs |-> 0]>>,
     <<[categoryName |-> "development", targetMs |-> MinuteMs]>>,
     <<[categoryName |-> "development", targetMs |-> 0],
       [categoryName |-> "writing", targetMs |-> 0]>>}
\* lists of distinct category names, the goals array of the ledger
CategoryLists ==
    {<<>>} \cup {<<c>> : c \in GoalCategories}
           \cup {<<p[1], p[2]>> :
                     p \in {q \in GoalCategories \X GoalCategories :
                               q[1] # q[2]}}
\* the documents stored under goals_notified_today
LedgerDocs == [date : Dates, goals : CategoryLists]

\* JSON.stringify(doc): the text stored for a document
JsonStringify(doc) == ToString(doc)
\* a ledger document that carries a date and no goals array
LedgerDocsNoGoals == [date : Dates]
\* texts that are JSON of another shape: an object without date and goals,
\* and the ledger documents without a goals array
OtherJson == {"{}"} \cup {JsonStringify(d) : d \in LedgerDocsNoGoals}
\* JSON.parse(text) over the documents of a key: ok with the document whose
\* text it is; not ok for JSON of another shape (no array, no date and goals
\* array); error (the SyntaxError the callers catch) for any other text
JsonParse(text, docs) ==
    IF \E d \in docs : JsonStringify(d) = text
    THEN [ok |-> TRUE, error |-> FALSE,
          value |-> CHOOSE d \in docs : JsonStringify(d) = text]
    ELSE [ok |-> FALSE, error |-> text \notin OtherJson, value |-> <<>>]
\* Array.isArray(v) for a parsed value, given the arrays a key can hold
IsArray(v, arrays) == v \in arrays

\* the strings a key is seen to hold; NullStr is an absent key
SettingValues(k) ==
    IF k = "break_interval_minutes"
    THEN {NullStr, "1", "6", "0", "abc"}
    ELSE IF k = "daily_summary_hour"
    THEN {NullStr, "0", "1", "24"}
    ELSE IF k = "daily_goals"
    THEN {NullStr, "oops"} \cup {JsonStringify(g) : g \in GoalLists}
    ELSE IF k = "goals_notified_today"
    THEN {NullStr, "oops"} \cup {JsonStringify(d) : d \in LedgerDocs}
    ELSE {NullStr, "true", "false"}

\* the strings the two numeric keys are seen to hold: absent, empty, not a
\* number, below the range, its ends, above the range
NumericTexts(k) ==
    IF k = "break_interval_minutes"
    THEN {NullStr, "", "abc", "-1", "0", "1", "6"}
    ELSE {NullStr, "", "abc", "-1", "0", "1", "23", "24"}

\* db.getSetting(key)
getSetting(st, k) == st[k]

\* parseInt(val, 10) on the stored strings: NaN or an integer
parseInt(val) ==
    IF val = "1" THEN [nan |-> FALSE, n |-> 1]
    ELSE IF val = "6" THEN [nan |-> FALSE, n |-> 6]
    ELSE IF val = "30" THEN [nan |-> FALSE, n |-> 30]
    ELSE IF val = "24" THEN [nan |-> FALSE, n |-> 24]
    ELSE IF val = "0" THEN [nan |-> FALSE, n |-> 0]
    ELSE IF val = "23" THEN [nan |-> FALSE, n |-> 23]
    ELSE IF val = "-1" THEN [nan |-> FALSE, n |-> 0 - 1]
    ELSE [nan |-> TRUE, n |-> 0]

\* a write to the settings table by the settings page
setSetting(k, v) ==
    /\ settings[k] # v
    /\ settings' = [settings EXCEPT ![k] = v]
    /\ UNCHANGED <<now, timers, breakTimer, lastBreakNotification, shown>>
    /\ UNCHANGED <<dbVars, summaryVars>>

\* obj.name for a row object: undefined when the row has no such property
FieldOf(row, name) ==
    IF name \in DOMAIN row THEN row[name] ELSE Undefined

\* the elements of an array
Elements(arr) == {arr[i] : i \in DOMAIN arr}

\* Math.round(num / den) for den > 0: the nearest integer, a half rounded up
MathRound(num, den) == (2 * num + den) \div (2 * den)

(***************************************************************************)
(* NotificationManager: the break reminder.                                *)
(***************************************************************************)
\* isEnabled()
isEnabled(st) == getSetting(st, "notifications_enabled") # "false"

\* isBreakRemindersEnabled()
isBreakRemindersEnabled(st) ==
    IF ~isEnabled(st) THEN FALSE
    ELSE getSetting(st, "break_reminders_enabled") # "false"

\* a getBreakIntervalMs that re-reads nothing: always the default interval
getBreakIntervalMsDefault(st) == DefaultBreakMinutes * MinuteMs

\* getBreakIntervalMs()
getBreakIntervalMs(st) ==
    LET val == getSetting(st, "break_interval_minutes")
        minutes == IF val # NullStr /\ val # "" THEN parseInt(val)
                   ELSE [nan |-> FALSE, n |-> DefaultBreakMinutes]
    IN (IF minutes.nan \/ minutes.n < 1 THEN DefaultBreakMinutes
        ELSE minutes.n) * MinuteMs

\* the pending tasks of the break family
BreakTasks(tm) == {t \in tm : t.family = "break"}

\* setTimeout returns a handle distinct from every handle still referenced
FreshTimerId(tm, held) ==
    CHOOSE id \in 1..(Cardinality(tm) + Cardinality(held) + 1) :
        /\ id \notin {t.id : t \in tm}
        /\ id \notin held

\* a clearBreakTimer that drops the handle without clearTimeout
clearBreakTimerDropsHandle(tm, bt) ==
    [timers |-> tm, breakTimer |-> NoTimer]

\* a clearBreakTimer that cancels every pending task
clearBreakTimerClearsAll(tm, bt) ==
    IF bt # NoTimer
    THEN [timers |-> {}, breakTimer |-> NoTimer]
    ELSE [timers |-> tm, breakTimer |-> bt]

\* clearBreakTimer(): the pending tasks and the handle field it leaves
clearBreakTimerResult(tm, bt) ==
    IF bt # NoTimer
    THEN [timers |-> {t \in tm : t.id # bt}, breakTimer |-> NoTimer]
    ELSE [timers |-> tm, breakTimer |-> bt]

\* a resetBreakTimer that lets a pending break task run on and arms only
\* when none is pending
resetBreakTimerKeepsPending(tm, bt, st, t) ==
    IF \E x \in tm : x.id = bt
    THEN [timers |-> tm, breakTimer |-> bt]
    ELSE LET intervalMs == getBreakIntervalMs(st)
             id == FreshTimerId(tm, {dailySummaryTimer})
         IN [timers |-> tm \cup {[id |-> id, family |-> "break",
                                  due |-> t + intervalMs,
                                  intervalMs |-> intervalMs]},
             breakTimer |-> id]

\* a resetBreakTimer that arms without clearing the previous task
resetBreakTimerNoClear(tm, bt, st, t) ==
    LET intervalMs == getBreakIntervalMs(st)
        id == FreshTimerId(tm, {bt, dailySummaryTimer})
    IN [timers |-> tm \cup {[id |-> id, family |-> "break",
                             due |-> t + intervalMs,
                             intervalMs |-> intervalMs]},
        breakTimer |-> id]

\* resetBreakTimer(): clear, then setTimeout(fireBreakReminder(intervalMs))
resetBreakTimerResult(tm, bt, st, t) ==
    LET c == clearBreakTimerResult(tm, bt)
        intervalMs == getBreakIntervalMs(st)
        id == FreshTimerId(c.timers, {c.breakTimer, dailySummaryTimer})
    IN [timers |-> c.timers \cup {[id |-> id, family |-> "break",
                                   due |-> t + intervalMs,
                                   intervalMs |-> intervalMs]},
        breakTimer |-> id]

\* onActivityStarted()
onActivityStarted ==
    /\ IF ~isBreakRemindersEnabled(settings)
       THEN UNCHANGED <<timers, breakTimer>>
       ELSE LET r == resetBreakTimerResult(timers, breakTimer, settings, now)
            IN /\ timers' = r.timers
               /\ breakTimer' = r.breakTimer
    /\ UNCHANGED <<now, settings, lastBreakNotification, shown>>
    /\ UNCHANGED <<dbVars, summaryVars>>

\* onIdle()
onIdle ==
    /\ LET r == clearBreakTimerResult(timers, breakTimer)
       IN /\ timers' = r.timers
          /\ breakTimer' = r.breakTimer
    /\ UNCHANGED <<now, settings, lastBreakNotification, shown>>
    /\ UNCHANGED <<dbVars, summaryVars>>

\* onPaused()
onPaused ==
    /\ LET r == clearBreakTimerResult(timers, breakTimer)
       IN /\ timers' = r.timers
          /\ breakTimer' = r.breakTimer
    /\ UNCHANGED <<now, settings, lastBreakNotification, shown>>
    /\ UNCHANGED <<dbVars, summaryVars>>

\* a fireBreakReminder without the 5-minute guard
fireBreakReminderUnguarded(last, log, intervalMs, t) ==
    [lastBreakNotification |-> t,
     shown |-> Append(log, [family |-> "break",
                            title |-> "Time for a break!",
                            minutes |-> intervalMs \div MinuteMs,
                            at |-> t])]

\* fireBreakReminder(intervalMs) at time t: the last-shown time and the
\* notification log it leaves
fireBreakReminderResult(last, log, intervalMs, t) ==
    IF t - last < BreakGuardMinutes * MinuteMs
    THEN [lastBreakNotification |-> last, shown |-> log]
    ELSE [lastBreakNotification |-> t,
          shown |-> Append(log, [family |-> "break",
                                 title |-> "Time for a break!",
                                 minutes |-> intervalMs \div MinuteMs,
                                 at |-> t])]

\* a break task armed with setInterval: it stays pending, due again one
\* interval later
TimersAfterBreakRepeats(tm, t) ==
    (tm \ {t}) \cup {[t EXCEPT !.due = t.due + t.intervalMs]}

\* the pending tasks after break task t has run: setTimeout is one-shot and
\* the callback calls fireBreakReminder only, which arms nothing
TimersAfterBreakFire(tm, t) == tm \ {t}

\* the event loop runs a due break task: the setTimeout callback of
\* resetBreakTimer
BreakTimerFires ==
    /\ Len(shown) < MaxShown
    /\ \E t \in BreakTasks(timers) :
          /\ t.due <= now
          /\ timers' = TimersAfterBreakFire(timers, t)
          /\ LET r == fireBreakReminderResult(lastBreakNotification, shown,
                                              t.intervalMs, now)
             IN /\ lastBreakNotification' = r.lastBreakNotification
                /\ shown' = r.shown
    /\ UNCHANGED <<now, settings, breakTimer>>
    /\ UNCHANGED <<dbVars, summaryVars>>

\* one minute passes; a due task runs before the clock moves past it
Tick ==
    /\ now + MinuteMs <= StartNow + MaxElapsedMin * MinuteMs
    /\ \A t \in timers : t.due >= now + MinuteMs
    /\ now' = now + MinuteMs
    /\ UNCHANGED <<settings, timers, breakTimer, lastBreakNotification, shown>>
    /\ UNCHANGED <<dbVars, summaryVars>>

(***************************************************************************)
(* NotificationManager: the daily summary.                                 *)
(***************************************************************************)
\* isDailySummaryEnabled()
isDailySummaryEnabled(st) ==
    IF ~isEnabled(st) THEN FALSE
    ELSE getSetting(st, "daily_summary_enabled") # "false"

\* a getDailySummaryHour that clamps the stored hour to 0..23
getDailySummaryHourClamped(st) ==
    LET val == getSetting(st, "daily_summary_hour")
        hour == IF val # NullStr /\ val # ""
                THEN parseInt(val)
                ELSE [nan |-> FALSE, n |-> DefaultSummaryHour]
    IN IF hour.nan THEN DefaultSummaryHour
       ELSE IF hour.n < 0 THEN 0
       ELSE IF hour.n > MaxSummaryHour THEN MaxSummaryHour
       ELSE hour.n

\* a getDailySummaryHour that takes any stored number as the hour
getDailySummaryHourUnchecked(st) ==
    LET val == getSetting(st, "daily_summary_hour")
        hour == IF val # NullStr /\ val # ""
                THEN parseInt(val)
                ELSE [nan |-> FALSE, n |-> DefaultSummaryHour]
    IN IF hour.nan THEN DefaultSummaryHour ELSE hour.n

\* getDailySummaryHour()
getDailySummaryHour(st) ==
    LET val == getSetting(st, "daily_summary_hour")
        hour == IF val # NullStr /\ val # ""
                THEN parseInt(val)
                ELSE [nan |-> FALSE, n |-> DefaultSummaryHour]
    IN IF hour.nan \/ hour.n < 0 \/ hour.n > MaxSummaryHour
       THEN DefaultSummaryHour
       ELSE hour.n

\* the pending tasks of the daily-summary family
SummaryTasks(tm) == {t \in tm : t.family = "summary"}

\* clearDailySummaryTimer(): the pending tasks and the handle field it leaves
clearDailySummaryTimerResult(tm, dt) ==
    IF dt # NoTimer
    THEN [timers |-> {t \in tm : t.id # dt}, dailySummaryTimer |-> NoTimer]
    ELSE [timers |-> tm, dailySummaryTimer |-> dt]

\* nextSummary of scheduleDailySummary: today at the summary hour, or the
\* same hour tomorrow once now has reached it
NextSummaryTime(st, t) ==
    LET nextSummary == StartOfDay(t) + getDailySummaryHour(st) * HourMs
    IN IF t >= nextSummary THEN nextSummary + DayMs ELSE nextSummary

\* scheduleDailySummary(): clear, pick the next summary time, reset the
\* shown flag on a new day, setTimeout
scheduleDailySummaryResult(tm, dt, shownToday, lastDate, st, t) ==
    LET c == clearDailySummaryTimerResult(tm, dt)
        passed == t >= StartOfDay(t) + getDailySummaryHour(st) * HourMs
        due == NextSummaryTime(st, t)
        id == FreshTimerId(c.timers, {breakTimer, c.dailySummaryTimer})
    IN [timers |-> c.timers \cup {[id |-> id, family |-> "summary",
                                   due |-> due, intervalMs |-> due - t]},
        dailySummaryTimer |-> id,
        dailySummaryShownToday |->
            IF passed /\ DateString(t) # lastDate THEN FALSE ELSE shownToday]

\* breakdown.reduce(...): the row of the largest total_duration, null for an
\* empty breakdown
TopCategory(breakdown) ==
    IF breakdown = <<>> THEN [category |-> NullStr]
    ELSE breakdown[CHOOSE i \in DOMAIN breakdown :
                       /\ \A j \in DOMAIN breakdown :
                              breakdown[j].total_duration
                                  <= breakdown[i].total_duration
                       /\ \A j \in 1..(i - 1) :
                              breakdown[j].total_duration
                                  < breakdown[i].total_duration]

RECURSIVE SumTotalDuration(_)
\* .reduce((sum, c) => sum + c.total_duration, 0) over breakdown rows
SumTotalDuration(rows) ==
    IF rows = <<>> THEN 0
    ELSE rows[1].total_duration + SumTotalDuration(Tail(rows))

\* productiveTime of fireDailySummary: 0 without a goal list or when the
\* try block throws (a text that does not parse, a value without .map);
\* otherwise the total_duration summed over the breakdown rows whose
\* category_name is a categoryName of the goals.  The rows have no
\* category_name, so the filter sees undefined for every row.
ProductiveTime(st, breakdown) ==
    LET goalsJson == getSetting(st, "daily_goals")
        parsed == JsonParse(goalsJson, GoalLists)
        goalCategories == {g.categoryName : g \in Elements(parsed.value)}
    IN IF goalsJson = NullStr \/ goalsJson = "" THEN 0
       ELSE IF ~(parsed.ok /\ IsArray(parsed.value, GoalLists)) THEN 0
       ELSE SumTotalDuration(
                SelectSeq(breakdown,
                          LAMBDA c : FieldOf(c, "category_name")
                                         \in goalCategories))

\* focusPercent of fireDailySummary
FocusPercent(productiveTime, totalTime) ==
    IF totalTime > 0 THEN MathRound(productiveTime * 100, totalTime) ELSE 0

\* a fireDailySummary that does not look at the shown flag
fireDailySummaryNoShownCheck(shownToday, lastDate, log, st, acts, t) ==
    LET today == DateString(t)
        totalTime == getTotalTrackedTime(acts, StartOfDay(t), t)
    IN IF ~isDailySummaryEnabled(st)
       THEN [dailySummaryShownToday |-> shownToday,
             lastSummaryDate |-> lastDate, shown |-> log,
             outcome |-> "disabled"]
       ELSE [dailySummaryShownToday |-> TRUE, lastSummaryDate |-> today,
             shown |-> log,
             outcome |-> IF totalTime < MinTrackedMs THEN "short"
                         ELSE "threw"]

\* fireDailySummary(): the flag, the date and the notification log it leaves,
\* and how the call ended.  It marks the day before it reads the tracked
\* time; with a minute or more tracked the breakdown is not empty and the
\* body reads topCategory.category_name, a property the breakdown rows do not
\* have, so .replace is called on undefined and the call throws.
fireDailySummaryResult(shownToday, lastDate, log, st, acts, t) ==
    LET today == DateString(t)
        startTs == StartOfDay(t)
        totalTime == getTotalTrackedTime(acts, startTs, t)
        breakdown == getCategoryBreakdown(acts, startTs, t)
        topCategory == TopCategory(breakdown)
        marked == [dailySummaryShownToday |-> TRUE,
                   lastSummaryDate |-> today]
    IN IF ~isDailySummaryEnabled(st)
       THEN [dailySummaryShownToday |-> shownToday,
             lastSummaryDate |-> lastDate, shown |-> log,
             outcome |-> "disabled"]
       ELSE IF shownToday /\ lastDate = today
       THEN [dailySummaryShownToday |-> shownToday,
             lastSummaryDate |-> lastDate, shown |-> log,
             outcome |-> "already"]
       ELSE IF totalTime < MinTrackedMs
       THEN marked @@ [shown |-> log, outcome |-> "short"]
       ELSE IF breakdown # <<>>
               /\ FieldOf(topCategory, "category_name") = Undefined
       THEN marked @@ [shown |-> log, outcome |-> "threw"]
       ELSE marked @@
            [shown |-> Append(log, [family |-> "summary",
                                    title |-> "Daily Summary",
                                    totalTime |-> totalTime,
                                    focusPercent |->
                                        FocusPercent(
                                            ProductiveTime(st, breakdown),
                                            totalTime),
                                    focus |->
                                        ProductiveTime(st, breakdown) > 0,
                                    at |-> t]),
             outcome |-> "shown"]

\* the setTimeout callback of scheduleDailySummary stops at the throw of
\* fireDailySummary: scheduleDailySummary() is then never reached
CallbackAborts(outcome) == outcome = "threw"

\* the event loop runs the due daily-summary task: fireDailySummary(), then
\* scheduleDailySummary()
SummaryTimerFires ==
    /\ \E t \in SummaryTasks(timers) :
          /\ t.due <= now
          /\ LET f == fireDailySummaryResult(dailySummaryShownToday,
                                             lastSummaryDate, shown,
                                             settings, activities, now)
                 r == scheduleDailySummaryResult(timers \ {t},
                                                 dailySummaryTimer,
                                                 f.dailySummaryShownToday,
                                                 f.lastSummaryDate,
                                                 settings, now)
             IN /\ shown' = f.shown
                /\ lastSummaryDate' = f.lastSummaryDate
                /\ firings' = Append(firings, [at |-> now,
                                               outcome |-> f.outcome])
                /\ IF CallbackAborts(f.outcome)
                   THEN /\ timers' = timers \ {t}
                        /\ dailySummaryShownToday' = f.dailySummaryShownToday
                        /\ UNCHANGED dailySummaryTimer
                   ELSE /\ timers' = r.timers
                        /\ dailySummaryTimer' = r.dailySummaryTimer
                        /\ dailySummaryShownToday' = r.dailySummaryShownToday
    /\ UNCHANGED <<now, settings, breakTimer, lastBreakNotification, started>>
    /\ UNCHANGED dbVars

\* a shutdown that cancels the break task and leaves the summary task
shutdownKeepsSummary(tm, bt, dt) ==
    LET b == clearBreakTimerResult(tm, bt)
    IN [timers |-> b.timers, breakTimer |-> b.breakTimer,
        dailySummaryTimer |-> dt]

\* shutdown(): clearBreakTimer(), then clearDailySummaryTimer()
shutdownResult(tm, bt, dt) ==
    LET b == clearBreakTimerResult(tm, bt)
        d == clearDailySummaryTimerResult(b.timers, dt)
    IN [timers |-> d.timers, breakTimer |-> b.breakTimer,
        dailySummaryTimer |-> d.dailySummaryTimer]

\* shutdown()
shutdown ==
    /\ LET r == shutdownResult(timers, breakTimer, dailySummaryTimer)
       IN /\ timers' = r.timers
          /\ breakTimer' = r.breakTimer
          /\ dailySummaryTimer' = r.dailySummaryTimer
    /\ UNCHANGED <<now, settings, lastBreakNotification, shown,
                   dailySummaryShownToday, lastSummaryDate, firings, started>>
    /\ UNCHANGED dbVars

\* one hour passes; a due task runs before the clock moves past it
TickHour ==
    /\ now + HourMs <= StartNow + MaxElapsedHours * HourMs
    /\ \A t \in timers : t.due >= now + HourMs
    /\ now' = now + HourMs
    /\ UNCHANGED <<settings, timers, breakTimer, lastBreakNotification, shown>>
    /\ UNCHANGED <<dbVars, summaryVars>>

\* the tracker records one sample of the editor that starts now
TrackActivity ==
    /\ Len(activities) < MaxTracked
    /\ \E d \in TrackedDurations :
       LET a == [app_name |-> "Editor", category |-> Classify("Editor"),
                 start_time |-> now, end_time |-> now + d, duration |-> d]
           r == insertActivityResult(sessions, activities, currentSessionId,
                                     currentSessionAppName, a)
       IN /\ sessions' = r.sessions
          /\ activities' = r.activities
          /\ currentSessionId' = r.currentSessionId
          /\ currentSessionAppName' = r.currentSessionAppName
    /\ UNCHANGED <<notifVars, pending>>

(***************************************************************************)
(* NotificationManager: the daily goals and the ledger of notified goals.  *)
(***************************************************************************)

\* a getNotifiedGoalsToday that takes the stored goals whatever their date
getNotifiedGoalsTodayAnyDate(st, t) ==
    LET stored == getSetting(st, "goals_notified_today")
        parsed == JsonParse(stored, LedgerDocs)
    IN IF stored = NullStr \/ stored = "" THEN <<>>
       ELSE IF parsed.ok THEN parsed.value.goals
       ELSE <<>>

\* getNotifiedGoalsToday(): the categories of the stored ledger when it is
\* of today's date, in the order the Set keeps them; empty otherwise
getNotifiedGoalsToday(st, t) ==
    LET stored == getSetting(st, "goals_notified_today")
        parsed == JsonParse(stored, LedgerDocs)
    IN IF stored = NullStr \/ stored = "" THEN <<>>
       ELSE IF parsed.error THEN <<>>
       ELSE IF /\ parsed.ok
               /\ parsed.value.date = DateString(t)
               /\ IsArray(parsed.value.goals, CategoryLists)
       THEN parsed.value.goals
       ELSE <<>>

\* a markGoalNotified that writes a ledger of the new category alone
markGoalNotifiedOverwrites(st, categoryName, t) ==
    [st EXCEPT !["goals_notified_today"] =
        JsonStringify([date |-> DateString(t), goals |-> <<categoryName>>])]

\* a markGoalNotified that does not write the ledger
markGoalNotifiedForgets(st, categoryName, t) == st

\* markGoalNotified(categoryName): the settings after the ledger is written
markGoalNotified(st, categoryName, t) ==
    LET notified == getNotifiedGoalsToday(st, t)
        added == IF categoryName \in Elements(notified) THEN notified
                 ELSE Append(notified, categoryName)
    IN [st EXCEPT !["goals_notified_today"] =
            JsonStringify([date |-> DateString(t), goals |-> added])]

\* match?.total_duration ?? 0 for breakdown.find(c => c.category_name ===
\* categoryName)
CurrentMs(breakdown, categoryName) ==
    LET match == SelectSeq(breakdown,
                           LAMBDA c : FieldOf(c, "category_name")
                                          = categoryName)
    IN IF match = <<>> THEN 0
       ELSE match[1].total_duration

\* the for loop of checkGoals from goal i on: the settings and the
\* notification log it leaves
RECURSIVE GoalsLoop(_, _, _, _, _, _, _)
GoalsLoop(goals, i, notifiedToday, breakdown, st, log, t) ==
    IF i > Len(goals) THEN [settings |-> st, shown |-> log]
    ELSE LET goal == goals[i]
         IN IF goal.categoryName \in notifiedToday
            THEN GoalsLoop(goals, i + 1, notifiedToday, breakdown, st, log, t)
            ELSE IF CurrentMs(breakdown, goal.categoryName) >= goal.targetMs
            THEN GoalsLoop(goals, i + 1, notifiedToday, breakdown,
                           markGoalNotified(st, goal.categoryName, t),
                           Append(log, [family |-> "goal",
                                        title |-> "Goal reached!",
                                        category |-> goal.categoryName,
                                        targetMs |-> goal.targetMs,
                                        at |-> t]),
                           t)
            ELSE GoalsLoop(goals, i + 1, notifiedToday, breakdown, st, log, t)

\* checkGoals(): the settings and the notification log it leaves
checkGoalsResult(st, acts, log, t) ==
    LET goalsJson == getSetting(st, "daily_goals")
        parsed == JsonParse(goalsJson, GoalLists)
        same == [settings |-> st, shown |-> log]
    IN IF ~isEnabled(st) THEN same
       ELSE IF goalsJson = NullStr \/ goalsJson = "" THEN same
       ELSE IF parsed.error THEN same
       ELSE IF ~(parsed.ok /\ IsArray(parsed.value, GoalLists)) THEN same
       ELSE GoalsLoop(parsed.value, 1,
                      Elements(getNotifiedGoalsToday(st, t)),
                      getCategoryBreakdown(acts, StartOfDay(t), t),
                      st, log, t)

\* checkGoals()
checkGoals ==
    /\ LET r == checkGoalsResult(settings, activities, shown, now)
       IN /\ settings' = r.settings
          /\ shown' = r.shown
    /\ UNCHANGED <<now, timers, breakTimer, lastBreakNotification>>
    /\ UNCHANGED <<dbVars, summaryVars>>

\* the texts under goals_notified_today that are no ledger of the date of t:
\* unparsable, JSON of another shape, or a ledger of another date
BadLedgerTexts(t) ==
    {"oops"} \cup OtherJson
             \cup {JsonStringify(d) : d \in {e \in LedgerDocs :
                                                e.date # DateString(t)}}

\* the ledger key is overwritten from outside with a text that is no ledger
\* of today
SetBadLedger ==
    \E v \in BadLedgerTexts(now) : setSetting("goals_notified_today", v)

\* the settings page stores a goal list, or a text that is none
SetGoalsText ==
    \E v \in SettingValues("daily_goals") \cup {"{}"} :
        setSetting("daily_goals", v)

\* checkGoals() while the log has room
checkGoalsLogged ==
    /\ Len(shown) < MaxShown
    /\ checkGoals

\* a restart that also loses the ledger, as if it were held in memory
RestartLosesLedger ==
    /\ currentSessionId' = NoSession
    /\ currentSessionAppName' = NullStr
    /\ breakTimer' = NoTimer
    /\ lastBreakNotification' = 0
    /\ lastSummaryDate' = NullStr
    /\ firings' = <<>>
    /\ started' = now
    /\ settings' = [settings EXCEPT !["goals_notified_today"] = NullStr]
    /\ LET r == scheduleDailySummaryResult({}, NoTimer, FALSE, NullStr,
                                           settings', now)
       IN /\ timers' = r.timers
          /\ dailySummaryTimer' = r.dailySummaryTimer
          /\ dailySummaryShownToday' = r.dailySummaryShownToday
    /\ UNCHANGED <<sessions, activities, pending, now, shown>>

\* the process ends and is started again: the tables and the settings are
\* kept, every field in memory starts over and the constructor arms the
\* daily summary
Restart ==
    /\ currentSessionId' = NoSession
    /\ currentSessionAppName' = NullStr
    /\ breakTimer' = NoTimer
    /\ lastBreakNotification' = 0
    /\ lastSummaryDate' = NullStr
    /\ firings' = <<>>
    /\ started' = now
    /\ LET r == scheduleDailySummaryResult({}, NoTimer, FALSE, NullStr,
                                           settings, now)
       IN /\ timers' = r.timers
          /\ dailySummaryTimer' = r.dailySummaryTimer
          /\ dailySummaryShownToday' = r.dailySummaryShownToday
    /\ UNCHANGED <<sessions, activities, pending, now, settings, shown>>

(***************************************************************************)
(* NotificationManager: the pomodoro notification.                         *)
(***************************************************************************)
\* isPomodoroNotificationsEnabled()
isPomodoroNotificationsEnabled(st) ==
    getSetting(st, "pomodoro_notifications_enabled") # "false"

\* Math.floor(num / den), what a truncating onPomodoroComplete would report
MathFloor(num, den) == num \div den

\* the timer types, durations (ms) and labels onPomodoroComplete is called
\* with; NullStr is an omitted label
PomodoroTypes == {"work", "short_break"}
PomodoroDurations ==
    {(MinuteMs \div 2) - 1, MinuteMs \div 2, (3 * MinuteMs) \div 2}
PomodoroLabels == {NullStr, "Write"}

\* an onPomodoroComplete that truncates the minutes
onPomodoroCompleteFloor(st, log, type, durationMs, label, t) ==
    IF ~isEnabled(st) \/ ~isPomodoroNotificationsEnabled(st) THEN log
    ELSE Append(log, [family |-> "pomodoro",
                      title |-> IF type = "work" THEN "Pomodoro complete!"
                                ELSE "Break's over!",
                      minutes |-> MathFloor(durationMs, MinuteMs),
                      type |-> type,
                      label |-> IF type = "work" THEN label ELSE NullStr,
                      at |-> t])

\* onPomodoroComplete(type, durationMs, label): the notification log it
\* leaves; the record keeps what the body is built from (the minutes, the
\* type, and the label a work body quotes)
onPomodoroCompleteResult(st, log, type, durationMs, label, t) ==
    IF ~isEnabled(st) \/ ~isPomodoroNotificationsEnabled(st) THEN log
    ELSE Append(log, [family |-> "pomodoro",
                      title |-> IF type = "work" THEN "Pomodoro complete!"
                                ELSE "Break's over!",
                      minutes |-> MathRound(durationMs, MinuteMs),
                      type |-> type,
                      label |-> IF type = "work" THEN label ELSE NullStr,
                      at |-> t])

\* onPomodoroComplete(type, durationMs, label)
onPomodoroComplete(type, durationMs, label) ==
    /\ Len(shown) < MaxShown
    /\ shown' = onPomodoroCompleteResult(settings, shown, type, durationMs,
                                         label, now)
    /\ UNCHANGED <<now, settings, timers, breakTimer, lastBreakNotification>>
    /\ UNCHANGED <<dbVars, summaryVars>>

\* the state after new ActivityDatabase() and new NotificationManager(db): the
\* constructor has run scheduleDailySummary()
Init ==
    /\ sessions = <<>>
    /\ activities = <<>>
    /\ currentSessionId = NoSession
    /\ currentSessionAppName = NullStr
    /\ pending = NoCall
    /\ now = StartNow
    /\ settings = [k \in SettingKeys |-> NullStr]
    /\ breakTimer = NoTimer
    /\ lastBreakNotification = 0
    /\ shown = <<>>
    /\ lastSummaryDate = NullStr
    /\ firings = <<>>
    /\ started = now
    /\ LET r == scheduleDailySummaryResult({}, NoTimer, FALSE, NullStr,
                                           settings, now)
       IN /\ timers = r.timers
          /\ dailySummaryTimer = r.dailySummaryTimer
          /\ dailySummaryShownToday = r.dailySummaryShownToday

InsertAny == \E a \in ActivityInputs : insertActivity(a)

\* an activity row written before sessions existed: its session_id is null
LegacyRow ==
    [id |-> 1, session_id |-> NoSession, app_name |-> "Editor",
     category |-> Classify("Editor"), start_time |-> 1, end_time |-> 1,
     duration |-> 1]

\* the state after construction over a database file that may already hold
\* a legacy activity row
InitLegacy ==
    /\ sessions = <<>>
    /\ activities \in {<<>>, <<LegacyRow>>}
    /\ currentSessionId = NoSession
    /\ currentSessionAppName = NullStr
    /\ pending = NoCall
    /\ now = StartNow
    /\ settings = [k \in SettingKeys |-> NullStr]
    /\ breakTimer = NoTimer
    /\ lastBreakNotification = 0
    /\ shown = <<>>
    /\ lastSummaryDate = NullStr
    /\ firings = <<>>
    /\ started = now
    /\ LET r == scheduleDailySummaryResult({}, NoTimer, FALSE, NullStr,
                                           settings, now)
       IN /\ timers = r.timers
          /\ dailySummaryTimer = r.dailySummaryTimer
          /\ dailySummaryShownToday = r.dailySummaryShownToday

Next ==
    \/ InsertAny
    \/ closeCurrentSession

Spec == Init /\ [][Next]_vars

\* the samples the queries tell apart: the queries read app_name, category,
\* start_time, duration and session_id of an activity, never its end_time
QueryInputs == {a \in ActivityInputs : a.end_time = a.start_time}

InsertForQuery == \E a \in QueryInputs : insertActivity(a)

NextQuery ==
    \/ InsertForQuery
    \/ closeCurrentSession

SpecQuery == InitLegacy /\ [][NextQuery]_vars

InsertBegins == \E a \in ActivityInputs : insertActivityBegin(a)

NextSteps ==
    \/ InsertBegins
    \/ insertActivityRow
    \/ insertActivityUpdate
    \/ closeBetweenCalls

SpecSteps == Init /\ [][NextSteps]_vars

SetAnySetting ==
    \E k \in BreakKeys : \E v \in SettingValues(k) : setSetting(k, v)

NextNotif ==
    \/ onActivityStarted
    \/ onIdle
    \/ onPaused
    \/ BreakTimerFires
    \/ Tick
    \/ SetAnySetting

SpecNotif == Init /\ [][NextNotif]_vars

SetSummarySetting ==
    \E k \in SummaryKeys : \E v \in SettingValues(k) : setSetting(k, v)

NextSummary ==
    \/ SummaryTimerFires
    \/ TickHour
    \/ SetSummarySetting
    \/ TrackActivity

SpecSummary == Init /\ [][NextSummary]_vars

SetGoalSetting ==
    \E k \in GoalKeys : \E v \in SettingValues(k) : setSetting(k, v)

NextGoals ==
    \/ checkGoals
    \/ SetGoalSetting
    \/ TrackActivity
    \/ TickHour
    \/ SummaryTimerFires

SpecGoals == Init /\ [][NextGoals]_vars

NextRestart ==
    \/ checkGoals
    \/ SetGoalSetting
    \/ TickHour
    \/ SummaryTimerFires
    \/ Restart

SpecRestart == Init /\ [][NextRestart]_vars

\* the settings page stores another summary hour
SetSummaryHour ==
    \E v \in SettingValues("daily_summary_hour") :
        setSetting("daily_summary_hour", v)

NextRecreate ==
    \/ SummaryTimerFires
    \/ TickHour
    \/ TrackActivity
    \/ SetSummaryHour
    \/ Restart

SpecRecreate == Init /\ [][NextRecreate]_vars

\* the settings page stores a text under one of the two numeric keys
SetNumericSetting ==
    \E k \in {"break_interval_minutes", "daily_summary_hour"} :
        \E v \in NumericTexts(k) : setSetting(k, v)

NextNumeric ==
    \/ SetNumericSetting
    \/ onActivityStarted
    \/ onIdle
    \/ TickHour
    \/ SummaryTimerFires
    \/ Restart

SpecNumeric == Init /\ [][NextNumeric]_vars

NextShutdown ==
    \/ shutdown
    \/ onActivityStarted
    \/ BreakTimerFires
    \/ SummaryTimerFires
    \/ TickHour
    \/ TrackActivity

SpecShutdown == Init /\ [][NextShutdown]_vars

NextJson ==
    \/ checkGoalsLogged
    \/ SetGoalsText
    \/ SetBadLedger

SpecJson == Init /\ [][NextJson]_vars

PomodoroCompletes ==
    \E type \in PomodoroTypes : \E d \in PomodoroDurations :
        \E label \in PomodoroLabels : onPomodoroComplete(type, d, label)

SetPomodoroSetting ==
    \E k \in PomodoroKeys : \E v \in SettingValues(k) : setSetting(k, v)

NextPomodoro ==
    \/ PomodoroCompletes
    \/ SetPomodoroSetting
    \/ onActivityStarted

SpecPomodoro == Init /\ [][NextPomodoro]_vars

\* a work pomodoro of a minute and a half completes
PomodoroWorkDone == onPomodoroComplete("work", (3 * MinuteMs) \div 2, NullStr)

\* the settings page stores a development goal that is met from the start
SetDevelopmentGoal ==
    setSetting("daily_goals",
               JsonStringify(<<[categoryName |-> "development",
                                targetMs |-> 0]>>))

NextFamilies ==
    \/ onActivityStarted
    \/ onIdle
    \/ onPaused
    \/ BreakTimerFires
    \/ SummaryTimerFires
    \/ TickHour
    \/ checkGoalsLogged
    \/ PomodoroWorkDone
    \/ SetDevelopmentGoal

SpecFamilies == Init /\ [][NextFamilies]_vars

(***************************************************************************)
(* Properties of the session aggregator.                                   *)
(***************************************************************************)
\* the ids of the rows of the sessions table
SessionIds == {sessions[i].id : i \in DOMAIN sessions}

\* C1: every Session row has total_duration = the sum of the durations of the
\* Activities whose session_id is that session, and activity_count = their
\* number, after any sequence of insertActivity and closeCurrentSession.
C1_SessionTotals ==
    \A i \in DOMAIN sessions :
        LET own == ActivitiesOf(activities, sessions[i].id)
        IN /\ sessions[i].total_duration = SumDuration(own)
           /\ sessions[i].activity_count = Len(own)

\* C1 witness: two sessions, one of them holding two activities of a
\* positive total, the pointer cleared at some point in between or after.
C1_Witness ==
    /\ Len(sessions) >= 2
    /\ \E i \in DOMAIN sessions :
          /\ sessions[i].activity_count = 2
          /\ sessions[i].total_duration = 2

\* C3: at most one Session is open: the pointer is empty (both fields null)
\* or holds the id of exactly one Session row, whose app_name is
\* currentSessionAppName.
C3_OneOpenSession ==
    \/ /\ currentSessionId = NoSession
       /\ currentSessionAppName = NullStr
    \/ /\ Cardinality({i \in DOMAIN sessions :
                          sessions[i].id = currentSessionId}) = 1
       /\ \A i \in DOMAIN sessions :
             sessions[i].id = currentSessionId
                 => sessions[i].app_name = currentSessionAppName

\* C3 witness: a second session is the open one after the first was closed
\* or superseded.
C3_Witness ==
    /\ Len(sessions) >= 2
    /\ currentSessionId = sessions[Len(sessions)].id
    /\ currentSessionAppName = sessions[Len(sessions)].app_name

\* the open-session pointer holds a session for this app
OpenFor(appName) ==
    currentSessionId # NoSession /\ currentSessionAppName = appName

\* the number of activities of a session, before and after a step
CountOf(acts, sessionId) == Len(ActivitiesOf(acts, sessionId))

\* activities with the same session_id are adjacent in insertion order and
\* of one app: no insertActivity for another app lies between two of them
SessionsContiguous ==
    \A k, l \in DOMAIN activities :
        (k < l /\ activities[k].session_id = activities[l].session_id)
            => \A m \in k..l :
                  /\ activities[m].session_id = activities[k].session_id
                  /\ activities[m].app_name = activities[k].app_name

\* a step gives an Activity to an existing Session only if that Session was
\* the open one before the step and stays the open one, and the pointer
\* never comes back to a Session it has left
NoReopenStep ==
    /\ \A i \in DOMAIN sessions :
          CountOf(activities', sessions[i].id)
                  # CountOf(activities, sessions[i].id)
              => /\ currentSessionId = sessions[i].id
                 /\ currentSessionId' = sessions[i].id
                 /\ activities'[Len(activities')].app_name
                        = currentSessionAppName
    /\ currentSessionId' # currentSessionId
          => currentSessionId' \notin SessionIds

\* C2: two Activities of one Session have no closeCurrentSession and no
\* insertActivity for another app between their insertions: once the pointer
\* has been cleared or moved on, the earlier Session receives no Activity.
C2_NoReopen == []SessionsContiguous /\ [][NoReopenStep]_vars

\* C2 witness: samples for apps A, B, A gave three distinct sessions.
C2_Witness ==
    /\ Len(activities) = 3
    /\ activities[1].app_name = activities[3].app_name
    /\ activities[1].app_name # activities[2].app_name
    /\ Cardinality({activities[k].session_id : k \in 1..3}) = 3

\* three 10-minute samples for one app, no close in between
ScenarioA ==
    LET s(k) == [app_name |-> "Editor", category |-> "development",
                 start_time |-> k * 600000, end_time |-> (k + 1) * 600000,
                 duration |-> 600000]
        r1 == insertActivityResult(<<>>, <<>>, NoSession, NullStr, s(0))
        r2 == insertActivityResult(r1.sessions, r1.activities,
                  r1.currentSessionId, r1.currentSessionAppName, s(1))
        r3 == insertActivityResult(r2.sessions, r2.activities,
                  r2.currentSessionId, r2.currentSessionAppName, s(2))
    IN /\ Len(r3.sessions) = 1
       /\ r3.sessions[1].total_duration = 1800000
       /\ r3.sessions[1].activity_count = 3

\* with a Session open for the sample's app, getOrCreateSession returns the
\* open id and changes nothing
ReuseLeavesState ==
    \A p \in Apps, st \in Times :
        OpenFor(p) =>
            getOrCreateSessionResult(sessions, currentSessionId,
                    currentSessionAppName, p, Classify(p), st)
                = [sessionId |-> currentSessionId, sessions |-> sessions,
                   currentSessionId |-> currentSessionId,
                   currentSessionAppName |-> currentSessionAppName]

\* insertActivity for the app of the open Session adds no Session row, files
\* the Activity under the open id, keeps the pointer and adds one to the
\* count and the duration to the total of that Session alone
ReuseStep ==
    \A a \in ActivityInputs :
        (insertActivity(a) /\ OpenFor(a.app_name)) =>
            /\ Len(sessions') = Len(sessions)
            /\ activities'[Len(activities')].session_id = currentSessionId
            /\ UNCHANGED <<currentSessionId, currentSessionAppName>>
            /\ \A i \in DOMAIN sessions :
                  IF sessions[i].id = currentSessionId
                  THEN /\ sessions'[i].activity_count
                              = sessions[i].activity_count + 1
                       /\ sessions'[i].total_duration
                              = sessions[i].total_duration + a.duration
                  ELSE sessions'[i] = sessions[i]

\* C4: with a Session open for app X, insertActivity and getOrCreateSession
\* for X create no Session row, use the open id and leave the pointer; n
\* same-app samples in a row give one Session with activity_count = n and
\* total_duration = the sum (three 10-minute samples: 1,800,000 ms, 3).
C4_ReuseOpenSession ==
    /\ [](ScenarioA /\ ReuseLeavesState)
    /\ [][ReuseStep]_vars

\* C4 witness: three samples in a row for one app, one Session of count 3.
C4_Witness ==
    /\ Len(sessions) = 1
    /\ sessions[1].activity_count = 3
    /\ sessions[1].total_duration = 2

\* insertActivity with no Session open for the sample's app: one new row
\* with a fresh id, created with start_time of the sample and zero totals,
\* made the open session, and counted once when the call returns
CreateStep ==
    \A a \in ActivityInputs :
        (insertActivity(a) /\ ~OpenFor(a.app_name)) =>
            LET n == Len(sessions) + 1
                created == createSession(sessions, a.app_name, a.category,
                                         a.start_time)
            IN /\ Len(sessions') = n
               /\ \A i \in DOMAIN sessions : sessions'[i] = sessions[i]
               /\ sessions'[n].id \notin SessionIds
               /\ created[n].id = sessions'[n].id
               /\ created[n].start_time = a.start_time
               /\ created[n].total_duration = 0
               /\ created[n].activity_count = 0
               /\ currentSessionId' = sessions'[n].id
               /\ currentSessionAppName' = a.app_name
               /\ sessions'[n].app_name = a.app_name
               /\ sessions'[n].start_time = a.start_time
               /\ sessions'[n].activity_count = 1
               /\ sessions'[n].total_duration = a.duration
               /\ sessions'[n].end_time = a.end_time
               /\ activities'[Len(activities')].session_id = sessions'[n].id

\* C5: with no Session open, or one open for another app, insertActivity
\* creates exactly one Session row with a fresh id, start_time of the sample
\* and zero totals, makes it the open session, and on return the session has
\* activity_count 1, total_duration and end_time of the activity.
C5_CreateSession == [][CreateStep]_vars

\* C5 witness: a sample for another app superseded the open session; the
\* new session is open and holds that one activity.
C5_Witness ==
    /\ Len(sessions) = 2
    /\ sessions[1].app_name # sessions[2].app_name
    /\ sessions[1].activity_count = 1
    /\ currentSessionId = sessions[2].id
    /\ sessions[2].activity_count = 1
    /\ sessions[2].total_duration = 1

\* a step that inserts no Activity is a closeCurrentSession: it leaves both
\* tables as they are and the pointer empty
CloseStep ==
    Len(activities') = Len(activities) =>
        /\ sessions' = sessions
        /\ activities' = activities
        /\ currentSessionId' = NoSession
        /\ currentSessionAppName' = NullStr

\* C6: closeCurrentSession only clears the open-session pointer; every
\* Session row, the one that was open included, and every Activity row is
\* unchanged, and with no session open the call changes nothing.
C6_CloseFrame == [][CloseStep]_vars

\* C6 witness: the pointer is empty after a session with counted activities
\* was open.
C6_Witness ==
    /\ currentSessionId = NoSession
    /\ currentSessionAppName = NullStr
    /\ Len(sessions) >= 1
    /\ sessions[Len(sessions)].activity_count >= 2
    /\ sessions[Len(sessions)].total_duration >= 1


\* C7 (as claimed): every stored Activity has duration >= 0, start_time <=
\* end_time and duration = end_time - start_time, whatever insertActivity was
\* given.
C7_ActivityIntervalClaim ==
    \A k \in DOMAIN activities :
        /\ activities[k].duration >= 0
        /\ activities[k].start_time <= activities[k].end_time
        /\ activities[k].duration =
               activities[k].end_time - activities[k].start_time

\* samples were delivered in non-decreasing start_time order, each with
\* start_time <= end_time (the activities table is in insertion order)
DeliveredInOrder ==
    /\ \A k \in DOMAIN activities :
          activities[k].start_time <= activities[k].end_time
    /\ \A k, l \in DOMAIN activities :
          k < l => activities[k].start_time <= activities[l].start_time

\* C8: a Session with at least one Activity has the start_time of its first
\* inserted Activity and the end_time of its most recently inserted one;
\* when samples came in non-decreasing start_time order with start_time <=
\* end_time, every Session has start_time <= end_time.
C8_SessionInterval ==
    /\ \A i \in DOMAIN sessions :
          LET own == ActivitiesOf(activities, sessions[i].id)
          IN Len(own) >= 1 =>
                /\ sessions[i].start_time = own[1].start_time
                /\ sessions[i].end_time = own[Len(own)].end_time
    /\ DeliveredInOrder =>
          \A i \in DOMAIN sessions :
              sessions[i].start_time <= sessions[i].end_time

\* C8 witness: samples in order, a session of two activities that spans
\* from the first one's start to the second one's later end.
C8_Witness ==
    /\ DeliveredInOrder
    /\ \E i \in DOMAIN sessions :
          LET own == ActivitiesOf(activities, sessions[i].id)
          IN /\ Len(own) = 2
             /\ own[1].end_time < own[2].end_time
             /\ sessions[i].start_time < sessions[i].end_time

(***************************************************************************)
(* Properties of the break reminder.                                       *)
(***************************************************************************)
\* a break task is pending in the event loop
BreakPending == BreakTasks(timers) # {}

\* the step shows a break notification
BreakShownInStep ==
    /\ Len(shown') > Len(shown)
    /\ shown'[Len(shown')].family = "break"

\* at most one break task is pending, and it is the one breakTimer holds
OneBreakTask ==
    /\ Cardinality(BreakTasks(timers)) <= 1
    /\ \A t \in BreakTasks(timers) : t.id = breakTimer

\* an arming by onActivityStarted leaves exactly the task it armed: due one
\* configured interval from now, whatever was pending before
ArmStep ==
    (onActivityStarted /\ isBreakRemindersEnabled(settings)) =>
        BreakTasks(timers') =
            {[id |-> breakTimer', family |-> "break",
              due |-> now + getBreakIntervalMs(settings),
              intervalMs |-> getBreakIntervalMs(settings)]}

\* a break notification comes from the task breakTimer holds, the most
\* recently armed one, which is pending no longer
FireStep ==
    BreakShownInStep =>
        \E t \in BreakTasks(timers) :
            /\ t.id = breakTimer
            /\ t \notin timers'
            /\ shown'[Len(shown')].minutes * MinuteMs = t.intervalMs

\* C9: at most one break-reminder task is pending at any time: every arming
\* by onActivityStarted (break reminders enabled) first cancels the pending
\* break task, so a superseded task never fires and only the most recently
\* armed one can.
C9_OneBreakTask ==
    /\ []OneBreakTask
    /\ [][ArmStep]_vars
    /\ [][FireStep]_vars

\* C9 witness: a break was shown and a task armed after that is pending, the
\* only one, under the handle in breakTimer.
C9_Witness ==
    /\ Len(shown) >= 1
    /\ \E t \in BreakTasks(timers) :
          /\ BreakTasks(timers) = {t}
          /\ t.id = breakTimer
          /\ t.due - t.intervalMs > shown[Len(shown)].at

\* onIdle and onPaused leave no break task pending and the handle null
RestStep ==
    (onIdle \/ onPaused) => (~BreakPending' /\ breakTimer' = NoTimer)

\* with no break task pending, a step shows no break notification
NoBreakWithoutTask == ~BreakPending => ~BreakShownInStep

\* a break task becomes pending in an onActivityStarted step only
OnlyActivityArms == (~BreakPending /\ BreakPending') => onActivityStarted

\* C10: after onIdle() or onPaused() no break-reminder notification is shown
\* until a later onActivityStarted() re-arms the task: the pending break task
\* is cancelled and nothing else arms one.
C10_NoBreakWhileResting ==
    /\ [][RestStep]_vars
    /\ [][NoBreakWithoutTask]_vars
    /\ [][OnlyActivityArms]_vars

\* C10 witness: a break was shown earlier, the user then went idle or
\* paused: the handle is null, nothing is pending, and minutes have passed
\* since.
C10_Witness ==
    /\ Len(shown) >= 1
    /\ breakTimer = NoTimer
    /\ ~BreakPending
    /\ now >= shown[Len(shown)].at + 2 * MinuteMs

\* the break notifications shown so far
BreakShown == SelectSeq(shown, LAMBDA n : n.family = "break")

\* two break notifications are at least 5 minutes apart, and the recorded
\* last-shown time is the time of the latest one
BreaksSpaced ==
    /\ \A i, j \in DOMAIN BreakShown :
          i < j => BreakShown[j].at - BreakShown[i].at
                       >= BreakGuardMinutes * MinuteMs
    /\ lastBreakNotification =
          IF BreakShown = <<>> THEN 0 ELSE BreakShown[Len(BreakShown)].at

\* a break task that runs less than 5 minutes after the last shown break
\* shows nothing, keeps the recorded time and leaves nothing armed
SuppressedStep ==
    (BreakTimerFires
        /\ now - lastBreakNotification < BreakGuardMinutes * MinuteMs)
    => /\ shown' = shown
       /\ lastBreakNotification' = lastBreakNotification
       /\ ~BreakPending'

\* C11: any two break-reminder notifications shown are at least 5 minutes
\* apart: a break task firing less than 5 minutes after the last shown break
\* shows nothing, does not update the last-shown time and arms no task.
C11_BreakGuard == []BreaksSpaced /\ [][SuppressedStep]_vars

\* C11 witness: two breaks were shown 5 minutes or more apart and a task
\* armed after the second has run within the guard, leaving the log as is.
C11_Witness ==
    /\ Len(BreakShown) = 2
    /\ breakTimer # NoTimer
    /\ ~BreakPending
    /\ now > lastBreakNotification
    /\ now - lastBreakNotification < BreakGuardMinutes * MinuteMs
    /\ getSetting(settings, "break_interval_minutes") = "1"
    /\ BreakShown[2].minutes = 6

\* a running break task, shown or suppressed, leaves no break task pending
FireLeavesNothing == BreakTimerFires => ~BreakPending'

\* a break task runs only if it is pending, and one becomes pending only in
\* an onActivityStarted step: one firing at most per call
FiringNeedsArming ==
    /\ BreakTimerFires => BreakPending
    /\ (BreakPending' /\ BreakTasks(timers') # BreakTasks(timers))
           => onActivityStarted

\* C12: a break-reminder task never re-arms itself: after a break task fires
\* (shown or suppressed) no break task is pending, and at most one break
\* firing occurs per onActivityStarted() call.
C12_NoSelfRearm == [][FireLeavesNothing]_vars /\ [][FiringNeedsArming]_vars

\* C12 witness: a break task has run and shown its notification; its stale
\* handle is still in breakTimer and nothing is pending.
C12_Witness ==
    /\ Len(BreakShown) >= 1
    /\ breakTimer # NoTimer
    /\ ~BreakPending
    /\ now = lastBreakNotification

\* a notification is shown in the step
ShownInStep == Len(shown') > Len(shown)

\* C13 (as claimed): no notification of any family is shown while
\* notifications_enabled is "false", and no break reminder while
\* break_reminders_enabled is "false": a break task armed before the flag
\* was turned off re-checks the flags when it runs.
C13_FlagsRecheckedClaim ==
    [][/\ ShownInStep => getSetting(settings, "notifications_enabled")
                             # "false"
       /\ BreakShownInStep => getSetting(settings, "break_reminders_enabled")
                                  # "false"]_vars

\* the interval a stored break_interval_minutes stands for, in minutes
ConfiguredMinutes(val) ==
    IF val = "1" THEN 1 ELSE IF val = "6" THEN 6
    ELSE IF val = "30" THEN 30 ELSE 60

\* a pending break task was armed in the past and is due one interval after
\* its arming, not before now
BreakTaskDue ==
    \A t \in BreakTasks(timers) :
        /\ t.due - t.intervalMs <= now
        /\ now <= t.due

\* an arming takes the interval configured at that moment
ArmedWithConfigured ==
    (onActivityStarted /\ isBreakRemindersEnabled(settings)) =>
        \A t \in BreakTasks(timers') :
            /\ t.intervalMs = MinuteMs * ConfiguredMinutes(
                   getSetting(settings, "break_interval_minutes"))
            /\ t.due = now + t.intervalMs

\* the task runs exactly one interval after its arming; past the guard it
\* shows, at that time, the minutes it was armed with
FiresOnTime ==
    BreakTimerFires =>
        \E t \in BreakTasks(timers) :
            /\ now = t.due
            /\ now - lastBreakNotification >= BreakGuardMinutes * MinuteMs
                 => /\ BreakShownInStep
                    /\ shown'[Len(shown')].at = t.due
                    /\ shown'[Len(shown')].minutes * MinuteMs = t.intervalMs

\* break_interval_minutes = 30, onActivityStarted at t = 0: the task is due
\* at 30 min and its notification says 30 minutes
ScenarioB ==
    LET st == [settings EXCEPT !["break_interval_minutes"] = "30"]
        r == resetBreakTimerResult({}, NoTimer, st, StartNow)
        t == CHOOSE x \in r.timers : TRUE
        f == fireBreakReminderResult(0, <<>>, t.intervalMs, t.due)
    IN /\ t.due = StartNow + 30 * MinuteMs
       /\ f.shown[1].minutes = 30
       /\ f.shown[1].at = t.due

\* C14: after onActivityStarted() with break reminders enabled and no later
\* onActivityStarted/onIdle/onPaused/shutdown, the break task fires exactly
\* break_interval_minutes after the call and, 5 minutes or more after the
\* last shown break, shows the interval in minutes as configured when the
\* task was armed (interval 30: "You've been working for 30 minutes.").
C14_BreakFiresAfterInterval ==
    /\ [](ScenarioB /\ BreakTaskDue)
    /\ [][ArmedWithConfigured]_vars
    /\ [][FiresOnTime]_vars

\* C14 witness: a break armed with interval 6 was shown 6 minutes after its
\* arming although break_interval_minutes had been changed meanwhile.
C14_Witness ==
    /\ Len(BreakShown) >= 1
    /\ BreakShown[Len(BreakShown)].minutes = 6
    /\ BreakShown[Len(BreakShown)].at = now
    /\ getSetting(settings, "break_interval_minutes") = "1"
    /\ ~BreakPending

(***************************************************************************)
(* Claims about the daily summary.                                         *)
(***************************************************************************)
\* the daily-summary callback runs in the step
SummaryFired == Len(firings') > Len(firings)

\* the first hour:00:00 strictly after t
OccurrenceAfter(hour, t) ==
    LET today == StartOfDay(t) + hour * HourMs
    IN IF today > t THEN today ELSE today + DayMs

\* the handle field names a pending summary task, which is due at the next
\* occurrence of the summary hour after t
ArmedFor(tm, dt, st, t) ==
    \E x \in SummaryTasks(tm) :
        /\ x.id = dt
        /\ x.due = OccurrenceAfter(getDailySummaryHour(st), t)
        /\ x.due - t > 0
        /\ x.due - t <= DayMs

\* the summary was already marked as shown for the date of now
MarkedToday ==
    dailySummaryShownToday /\ lastSummaryDate = DateString(now)

\* today's tracked time as fireDailySummary reads it
TrackedToday == getTotalTrackedTime(activities, StartOfDay(now), now)

\* C15 (as claimed): the daily-summary alarm is re-armed after every firing,
\* whether or not a summary was shown, for the next occurrence of
\* daily_summary_hour:00:00 strictly after now, a delay in (0, 24 h].
C15_RearmedAfterFiring ==
    [][SummaryFired =>
           ArmedFor(timers', dailySummaryTimer', settings', now')]_vars

\* no two summaries of the log were shown on the same local date
OneSummaryPerDate ==
    \A i \in DOMAIN shown : \A j \in DOMAIN shown :
        (i < j /\ shown[i].family = "summary" /\ shown[j].family = "summary")
            => DateString(shown[i].at) # DateString(shown[j].at)

\* a firing with summaries disabled, or on a date already marked, is a skip:
\* it shows nothing, leaves the date as it is, and the alarm is re-armed
SkippedFiring ==
    (SummaryFired /\ (~isDailySummaryEnabled(settings) \/ MarkedToday)) =>
        /\ shown' = shown
        /\ lastSummaryDate' = lastSummaryDate
        /\ firings'[Len(firings')].outcome \in {"disabled", "already"}
        /\ MarkedToday => dailySummaryShownToday'
        /\ ArmedFor(timers', dailySummaryTimer', settings', now')

\* a date once marked stays marked for the rest of that date
MarkStays ==
    (MarkedToday /\ DateString(now') = DateString(now)) =>
        (dailySummaryShownToday' /\ lastSummaryDate' = lastSummaryDate)

\* C16: within one process lifetime at most one daily summary is shown per
\* local date: a firing is skipped when summaries or the master flag are
\* disabled, or when the date is already marked as shown, also when the hour
\* was changed so that the alarm runs a second time on the same date.
C16_OneSummaryPerDate ==
    /\ []OneSummaryPerDate
    /\ [][SkippedFiring /\ MarkStays]_vars

\* the alarm ran twice on one date, at two different hours, and the second
\* run was skipped because the date was already marked
C16_Witness ==
    \E i \in DOMAIN firings : \E j \in DOMAIN firings :
        /\ i < j
        /\ DateString(firings[i].at) = DateString(firings[j].at)
        /\ firings[i].at # firings[j].at
        /\ firings[j].outcome = "already"

\* C17 (as claimed): a firing with summaries enabled, not yet shown today
\* and under 60,000 ms tracked today shows nothing and is not marked as
\* shown: dailySummaryShownToday remains false.
C17_ShortDayNotMarked ==
    [][(/\ SummaryFired
        /\ isDailySummaryEnabled(settings)
        /\ ~dailySummaryShownToday
        /\ TrackedToday < MinTrackedMs) =>
           (shown' = shown /\ ~dailySummaryShownToday')]_vars

(***************************************************************************)
(* Claims about the daily goals and the ledger.                            *)
(***************************************************************************)
\* the places of the log where a goal notification for cat was shown on date
GoalShownOn(log, cat, date) ==
    {i \in DOMAIN log : /\ log[i].family = "goal"
                        /\ log[i].category = cat
                        /\ DateString(log[i].at) = date}

\* the goal notifications a call of checkGoals would add in this state
AddedByCheck ==
    LET r == checkGoalsResult(settings, activities, shown, now)
    IN {r.shown[i] : i \in (Len(shown) + 1)..Len(r.shown)}

\* a second checkGoals right after a first one, same day and same data,
\* shows nothing and writes nothing
CheckTwiceAddsNothing ==
    LET r1 == checkGoalsResult(settings, activities, shown, now)
        r2 == checkGoalsResult(r1.settings, activities, r1.shown, now)
    IN r2 = r1

\* one call never shows two notifications for one category
OncePerCall ==
    \A m \in AddedByCheck : \A n \in AddedByCheck :
        m.category = n.category => m = n

\* over the whole log, a category has at most one goal notification per date
OncePerDateAndCategory ==
    \A c \in GoalCategories : \A d \in Dates :
        Cardinality(GoalShownOn(shown, c, d)) <= 1

\* C18: checkGoals called any number of times within one local day, with the
\* same goal list and activity data, shows "Goal reached!" at most once for
\* each satisfied goal category.
C18_CheckGoalsIdempotent ==
    /\ CheckTwiceAddsNothing
    /\ OncePerCall
    /\ OncePerDateAndCategory

\* a goal was notified today and the goal list still holds that goal: the
\* next checkGoals meets a satisfied goal that is already in the ledger
C18_Witness ==
    /\ isEnabled(settings)
    /\ \E i \in DOMAIN shown : \E g \in GoalLists :
          /\ shown[i].family = "goal"
          /\ DateString(shown[i].at) = DateString(now)
          /\ getSetting(settings, "daily_goals") = JsonStringify(g)
          /\ \E k \in DOMAIN g :
                /\ g[k].categoryName = shown[i].category
                /\ g[k].targetMs = shown[i].targetMs

\* the stored ledger, when it parses
StoredLedger == JsonParse(getSetting(settings, "goals_notified_today"),
                          LedgerDocs)

\* the duration summed today over the activities of a category
SummedToday(cat) ==
    SumDuration(SelectSeq(ActivitiesInRange(activities, StartOfDay(now), now),
                          LAMBDA a : a.category = cat))

\* the goals of the stored goal list, none when it does not parse
StoredGoals ==
    LET parsed == JsonParse(getSetting(settings, "daily_goals"), GoalLists)
    IN IF parsed.ok THEN Elements(parsed.value) ELSE {}

\* the ledger carries a previous date
StaleLedger == StoredLedger.ok /\ StoredLedger.value.date # DateString(now)

\* C19 (as claimed): a ledger of a previous date is treated as empty: a
\* category it records is notified again today once its goal is met (its
\* duration summed today reaches targetMs), and the first notification of the
\* new day overwrites the ledger with today's date and today's categories.
C19_StaleLedgerIgnored ==
    (isEnabled(settings) /\ StaleLedger) =>
        LET r == checkGoalsResult(settings, activities, shown, now)
            after == JsonParse(getSetting(r.settings, "goals_notified_today"),
                               LedgerDocs)
        IN /\ \A g \in StoredGoals :
                 (/\ g.categoryName \in Elements(StoredLedger.value.goals)
                  /\ SummedToday(g.categoryName) >= g.targetMs)
                     => \E n \in AddedByCheck : n.category = g.categoryName
           /\ AddedByCheck # {} =>
                 /\ after.ok
                 /\ after.value.date = DateString(now)
                 /\ Elements(after.value.goals) =
                        {n.category : n \in AddedByCheck}

\* a category notified today is not notified by the next checkGoals
NotifiedStaysQuiet ==
    \A i \in DOMAIN shown :
        (shown[i].family = "goal" /\ DateString(shown[i].at) = DateString(now))
            => \A n \in AddedByCheck : n.category # shown[i].category

\* re-creating the NotificationManager leaves the key-value store as it was
RestartKeepsLedger == (started' # started) => (settings' = settings)

\* C20: the ledger survives a restart: a category notified today is not
\* notified again by a checkGoals that runs after the NotificationManager
\* was re-created on the same local date.
C20_LedgerSurvivesRestart ==
    /\ [](NotifiedStaysQuiet /\ OncePerDateAndCategory)
    /\ [][RestartKeepsLedger]_vars

\* development was notified, the manager was re-created later on that date,
\* and a checkGoals after that (it notified writing, from the list that holds
\* both goals) did not notify development again
C20_Witness ==
    \E i \in DOMAIN shown : \E j \in DOMAIN shown :
        /\ shown[i].family = "goal" /\ shown[j].family = "goal"
        /\ shown[i].category = "development"
        /\ shown[j].category = "writing"
        /\ shown[i].at < started
        /\ started <= shown[j].at
        /\ DateString(shown[i].at) = DateString(shown[j].at)
        /\ DateString(shown[j].at) = DateString(now)
        /\ Cardinality(GoalShownOn(shown, "development",
                                   DateString(now))) = 1

\* the categories the stored ledger records for today's date
TodayLedger ==
    IF StoredLedger.ok /\ StoredLedger.value.date = DateString(now)
    THEN Elements(StoredLedger.value.goals)
    ELSE {}

\* the categories of today's ledger after a call of checkGoals in this state
LedgerAfterCheck ==
    LET r == checkGoalsResult(settings, activities, shown, now)
        after == JsonParse(getSetting(r.settings, "goals_notified_today"),
                           LedgerDocs)
    IN IF after.ok /\ after.value.date = DateString(now)
       THEN Elements(after.value.goals)
       ELSE {}

\* C21 (as claimed): checkGoals shows a goal notification for a Goal and
\* records its category in the ledger if and only if the category is not in
\* today's ledger and the duration summed today for the category is at least
\* targetMs; a Goal that is not met causes no notification and no ledger
\* write.
C21_NotifiedIffMet ==
    isEnabled(settings) =>
        \A g \in StoredGoals :
            LET met == /\ g.categoryName \notin TodayLedger
                       /\ SummedToday(g.categoryName) >= g.targetMs
                notified == \E n \in AddedByCheck :
                                n.category = g.categoryName
            IN /\ notified <=> met
               /\ (g.categoryName \in LedgerAfterCheck) <=>
                      (met \/ g.categoryName \in TodayLedger)

\* the stored goal list is absent, unparsable or no array
NoGoalList ==
    LET text == getSetting(settings, "daily_goals")
    IN text = NullStr \/ ~JsonParse(text, GoalLists).ok

\* the stored ledger is absent, unparsable, or no ledger of today's date
NoLedgerToday ==
    LET text == getSetting(settings, "goals_notified_today")
    IN text = NullStr \/ text \in BadLedgerTexts(now)

\* what checkGoals leaves when it starts from an absent ledger
CheckFromAbsentLedger ==
    checkGoalsResult([settings EXCEPT !["goals_notified_today"] = NullStr],
                     activities, shown, now)

\* C22: missing or malformed JSON is never an error: without a goal list
\* that parses to an array checkGoals shows nothing and writes nothing; with
\* a ledger that is absent, unparsable or not of today's date with a goals
\* array, checkGoals does what it does with an empty ledger.
C22_MalformedJsonIgnored ==
    LET r == checkGoalsResult(settings, activities, shown, now)
    IN /\ NoGoalList => (r.shown = shown /\ r.settings = settings)
       /\ (NoLedgerToday /\ ~NoGoalList) =>
             /\ r.shown = CheckFromAbsentLedger.shown
             /\ IF r.shown = shown
                THEN r.settings = settings
                ELSE r.settings = CheckFromAbsentLedger.settings

\* a category was notified twice on one date: in between, the ledger was
\* overwritten with a text that is no ledger of today, and checkGoals went on
\* as with an empty ledger; now the goal list itself is no array
C22_Witness ==
    /\ getSetting(settings, "daily_goals") \in {"oops", "{}"}
    /\ \E i \in DOMAIN shown : \E j \in DOMAIN shown :
          /\ i < j
          /\ shown[i].family = "goal" /\ shown[j].family = "goal"
          /\ shown[i].category = shown[j].category
          /\ DateString(shown[i].at) = DateString(shown[j].at)

(***************************************************************************)
(* Claims about the pomodoro notification and the two timer families.      *)
(***************************************************************************)
\* round(durationMs / 60000): the minute count nearest to the duration, a
\* half minute counting up
NearestMinute(durationMs) ==
    CHOOSE n \in 0..(durationMs \div MinuteMs + 1) :
        /\ 2 * (MinuteMs * n - durationMs) <= MinuteMs
        /\ 2 * (durationMs - MinuteMs * n) < MinuteMs

\* both flags that gate the pomodoro notification are other than "false"
PomodoroAllowed ==
    /\ getSetting(settings, "notifications_enabled") # "false"
    /\ getSetting(settings, "pomodoro_notifications_enabled") # "false"

\* what a call with these arguments shows in this state
PomodoroShows(type, d, label) ==
    LET r == onPomodoroCompleteResult(settings, shown, type, d, label, now)
    IN IF PomodoroAllowed
       THEN /\ Len(r) = Len(shown) + 1
            /\ SubSeq(r, 1, Len(shown)) = shown
            /\ r[Len(r)].title = IF type = "work" THEN "Pomodoro complete!"
                                 ELSE "Break's over!"
            /\ r[Len(r)].minutes = NearestMinute(d)
       ELSE r = shown

\* a step that shows a pomodoro notification changes nothing but the log
PomodoroFrame ==
    (Len(shown') > Len(shown) /\ shown'[Len(shown')].family = "pomodoro") =>
        UNCHANGED <<settings, timers, breakTimer, lastBreakNotification,
                    dailySummaryTimer, dailySummaryShownToday,
                    lastSummaryDate>>

\* C23: onPomodoroComplete shows exactly one notification iff both
\* notifications_enabled and pomodoro_notifications_enabled are not "false",
\* titled "Pomodoro complete!" for type "work" and "Break's over!" for any
\* other type, with N = round(durationMs / 60000); it leaves the break timer,
\* the daily-summary timer and flag and the goal ledger unchanged.
C23_PomodoroStateless ==
    /\ [](\A type \in PomodoroTypes : \A d \in PomodoroDurations :
             \A label \in PomodoroLabels : PomodoroShows(type, d, label))
    /\ [][PomodoroFrame]_vars

\* a break of half a minute was announced as 1 minute while a break task
\* and the summary task were pending
C23_Witness ==
    /\ BreakTasks(timers) # {}
    /\ SummaryTasks(timers) # {}
    /\ \E i \in DOMAIN shown :
          /\ shown[i].family = "pomodoro"
          /\ shown[i].title = "Break's over!"
          /\ shown[i].minutes = 1

\* the break family (its pending tasks or its handle) changes in the step
BreakFamilyChanged ==
    \/ BreakTasks(timers') # BreakTasks(timers)
    \/ breakTimer' # breakTimer

\* the daily-summary family changes in the step
SummaryFamilyChanged ==
    \/ SummaryTasks(timers') # SummaryTasks(timers)
    \/ dailySummaryTimer' # dailySummaryTimer

\* a goal or pomodoro notification is shown in the step
GoalOrPomodoroShown ==
    /\ Len(shown') > Len(shown)
    /\ shown'[Len(shown')].family \in {"goal", "pomodoro"}

\* C24: there is no cross-family cancellation: no step of the break family
\* (onActivityStarted, onIdle, onPaused, a break firing) cancels or re-arms
\* the daily-summary task, no summary firing or re-arming cancels or re-arms
\* the break task, and checkGoals and onPomodoroComplete touch neither.
C24_NoCrossFamily ==
    [][/\ BreakFamilyChanged => ~SummaryFamilyChanged
       /\ SummaryFired => ~BreakFamilyChanged
       /\ GoalOrPomodoroShown =>
              (~BreakFamilyChanged /\ ~SummaryFamilyChanged)]_vars

\* the summary fired and was re-armed while a break task armed before that
\* firing is still pending, and goal and pomodoro notifications were shown
C24_Witness ==
    /\ firings # <<>>
    /\ SummaryTasks(timers) # {}
    /\ \E b \in BreakTasks(timers) :
          b.due - b.intervalMs < firings[Len(firings)].at
    /\ \E i \in DOMAIN shown : shown[i].family = "goal"
    /\ \E i \in DOMAIN shown : shown[i].family = "pomodoro"

(***************************************************************************)
(* Claims about the queries.                                               *)
(***************************************************************************)
\* the ends a queried range can have, around the start times stored
RangeEnds == 0..1

\* the ids of the activities whose start_time lies in [startTime, endTime]
InRangeIds(startTime, endTime) ==
    {i \in DOMAIN activities : /\ startTime <= activities[i].start_time
                               /\ activities[i].start_time <= endTime}

RECURSIVE DurationOfIds(_)
\* the durations of a set of activities, added up
DurationOfIds(ids) ==
    IF ids = {} THEN 0
    ELSE LET i == CHOOSE x \in ids : TRUE
         IN activities[i].duration + DurationOfIds(ids \ {i})

RECURSIVE SumField(_, _)
\* one field of the rows of a result, added up
SumField(rows, field) ==
    IF rows = <<>> THEN 0
    ELSE rows[1][field] + SumField(Tail(rows), field)

\* C25: for any inclusive range, getTotalTrackedTime is the sum of duration
\* over the Activities that start in the range (0 for none); it equals the
\* total_duration summed over getAppUsage and over getCategoryBreakdown, and
\* the row counts of each of the two add up to the number of Activities in
\* the range.
C25_TotalsAgree ==
    \A s \in RangeEnds : \A e \in RangeEnds :
        LET total == getTotalTrackedTime(activities, s, e)
            apps == getAppUsage(activities, s, e)
            cats == getCategoryBreakdown(activities, s, e)
        IN /\ total = DurationOfIds(InRangeIds(s, e))
           /\ total = SumField(apps, "total_duration")
           /\ total = SumField(cats, "total_duration")
           /\ SumField(apps, "session_count") = Cardinality(InRangeIds(s, e))
           /\ SumField(cats, "session_count") = Cardinality(InRangeIds(s, e))

\* a range that ends on the start time of some activity with a duration,
\* holds activities of two apps and leaves an activity out
C25_Witness ==
    \E s \in RangeEnds : \E e \in RangeEnds :
        /\ Len(getAppUsage(activities, s, e)) = 2
        /\ InRangeIds(s, e) # DOMAIN activities
        /\ \E i \in InRangeIds(s, e) :
              activities[i].start_time = e /\ activities[i].duration > 0

\* the categories of the activities of a range
CategoriesInRange(startTime, endTime) ==
    {activities[i].category : i \in InRangeIds(startTime, endTime)}

\* the ids of the activities of a range that have one category
BucketIds(startTime, endTime, category) ==
    {i \in InRangeIds(startTime, endTime) : activities[i].category = category}

\* C26: getCategoryBreakdown returns exactly one row per distinct category
\* among the Activities that start in the inclusive range, the null
\* categories forming one bucket of their own; each row carries the summed
\* duration and the number of rows of its bucket, and the rows come in
\* descending order of summed duration.
C26_OneRowPerCategory ==
    \A s \in RangeEnds : \A e \in RangeEnds :
        LET cats == getCategoryBreakdown(activities, s, e)
        IN /\ {cats[i].category : i \in DOMAIN cats} = CategoriesInRange(s, e)
           /\ Len(cats) = Cardinality(CategoriesInRange(s, e))
           /\ \A i \in DOMAIN cats :
                 /\ cats[i].total_duration =
                        DurationOfIds(BucketIds(s, e, cats[i].category))
                 /\ cats[i].session_count =
                        Cardinality(BucketIds(s, e, cats[i].category))
           /\ \A i \in DOMAIN cats : \A j \in DOMAIN cats :
                 i < j => cats[i].total_duration >= cats[j].total_duration

\* a breakdown of two rows with different sums, the null bucket holding two
\* activities
C26_Witness ==
    \E s \in RangeEnds : \E e \in RangeEnds :
        LET cats == getCategoryBreakdown(activities, s, e)
        IN /\ Len(cats) = 2
           /\ cats[1].total_duration > cats[2].total_duration
           /\ \E i \in DOMAIN cats : /\ cats[i].category = NullStr
                                     /\ cats[i].session_count = 2

\* the ids of the sessions that start in a range
SessionsInRange(startTime, endTime) ==
    {sessions[j].id : j \in {k \in DOMAIN sessions :
                                /\ startTime <= sessions[k].start_time
                                /\ sessions[k].start_time <= endTime}}

\* the ids of the activities of a range that reference one session
OwnIds(startTime, endTime, sessionId) ==
    {i \in InRangeIds(startTime, endTime) :
        activities[i].session_id = sessionId}

\* C27: getSessionsWithActivities returns exactly the Sessions that start in
\* the inclusive range, newest first, each with exactly those of its own
\* Activities that start in the range too; an Activity without a session,
\* or whose Session starts outside the range, is in no returned session, and
\* no Activity is under a session other than its own.
C27_SessionsCarryOwnActivities ==
    \A s \in RangeEnds : \A e \in RangeEnds :
        LET res == getSessionsWithActivities(sessions, activities, s, e)
            listed(i) == {res[i].activities[k].id :
                             k \in DOMAIN res[i].activities}
        IN /\ {res[i].id : i \in DOMAIN res} = SessionsInRange(s, e)
           /\ Len(res) = Cardinality(SessionsInRange(s, e))
           /\ \A i \in DOMAIN res : \A j \in DOMAIN res :
                 i < j => res[i].start_time >= res[j].start_time
           /\ \A i \in DOMAIN res :
                 /\ listed(i) = OwnIds(s, e, res[i].id)
                 /\ Len(res[i].activities) = Cardinality(listed(i))
           /\ \A a \in DOMAIN activities :
                 (\/ activities[a].session_id = NoSession
                  \/ activities[a].session_id \notin SessionsInRange(s, e))
                 => \A i \in DOMAIN res : a \notin listed(i)
           /\ \A i \in DOMAIN res : \A k \in DOMAIN res[i].activities :
                 res[i].activities[k].session_id = res[i].id

\* a range with a returned session that carries an activity, a legacy
\* activity and an activity whose session starts before the range
C27_Witness ==
    \E s \in RangeEnds : \E e \in RangeEnds :
        LET res == getSessionsWithActivities(sessions, activities, s, e)
        IN /\ \E i \in DOMAIN res : res[i].activities # <<>>
           /\ \E a \in InRangeIds(s, e) : activities[a].session_id = NoSession
           /\ \E a \in InRangeIds(s, e) :
                 /\ activities[a].session_id # NoSession
                 /\ activities[a].session_id \notin SessionsInRange(s, e)

\* the durations tracked today over the categories the stored goals name,
\* each category once
NamedByGoalsToday ==
    LET names == {g.categoryName : g \in StoredGoals}
        today == ActivitiesInRange(activities, StartOfDay(now), now)
    IN SumDuration(SelectSeq(today, LAMBDA a : a.category \in names))

\* C28: when a summary is due for at least a minute tracked today, its focus
\* percent is round(productiveTime / totalTime * 100), productiveTime being
\* the durations of today's breakdown summed over the categories the Goal
\* list names; the percent lies in 0..100 and the focus part is shown only
\* for a productiveTime above 0.
C28_FocusPercent ==
    LET totalTime == getTotalTrackedTime(activities, StartOfDay(now), now)
        breakdown == getCategoryBreakdown(activities, StartOfDay(now), now)
        productiveTime == ProductiveTime(settings, breakdown)
        focusPercent == FocusPercent(productiveTime, totalTime)
    IN (isDailySummaryEnabled(settings) /\ totalTime >= MinTrackedMs)
       => /\ productiveTime = NamedByGoalsToday
          /\ focusPercent = MathRound(NamedByGoalsToday * 100, totalTime)
          /\ focusPercent \in 0..100

(***************************************************************************)
(* Claims about insertActivity seen statement by statement.                *)
(***************************************************************************)
\* the ids of the first k activities of a session, in insertion order
FirstOf(sessionId, k) ==
    LET own == {i \in DOMAIN activities :
                   activities[i].session_id = sessionId}
    IN {i \in own : Cardinality({j \in own : j <= i}) <= k}

\* the session reflects its first k samples, in all three fields
ReflectsSamples(s, k) ==
    /\ s.activity_count = k
    /\ s.total_duration = DurationOfIds(FirstOf(s.id, k))
    /\ k > 0 => \E i \in FirstOf(s.id, k) :
                   /\ \A j \in FirstOf(s.id, k) : j <= i
                   /\ s.end_time = activities[i].end_time

\* C29: the session update of a sample is one step: in every state a reader
\* can see, the activity_count of a Session stands for as many samples as
\* its total_duration and its end_time do, never for one sample more.
C29_UpdateIsOneStep ==
    \A i \in DOMAIN sessions :
        ReflectsSamples(sessions[i], sessions[i].activity_count)

\* a call has written its activity row and not yet its session, whose count
\* and total stand for the earlier sample alone
C29_Witness ==
    /\ pending.pc = "update"
    /\ \E i \in DOMAIN sessions :
          /\ sessions[i].id = pending.sessionId
          /\ sessions[i].activity_count = 1
          /\ Cardinality(FirstOf(sessions[i].id, 2)) = 2
          /\ pending.sample.duration > 0

(***************************************************************************)
(* Claims about the order in which samples are delivered.                  *)
(***************************************************************************)
\* some sample was delivered after a sample that starts later (the rows of
\* the activities table are in delivery order)
OutOfOrderDelivered ==
    \E i \in DOMAIN activities : \E j \in DOMAIN activities :
        i < j /\ activities[i].start_time > activities[j].start_time

\* the ids of the activities of a session
IdsOf(sessionId) ==
    {i \in DOMAIN activities : activities[i].session_id = sessionId}

\* the totals of a session are the sum and the count of its activities
TotalsIntact(s) ==
    /\ s.total_duration = DurationOfIds(IdsOf(s.id))
    /\ s.activity_count = Cardinality(IdsOf(s.id))

\* C30 as stated: once samples were delivered out of non-decreasing
\* start_time order, some Session's total_duration or activity_count is no
\* longer the sum or the count of its Activities.
C30_OutOfOrderCorruptsTotals ==
    OutOfOrderDelivered => \E i \in DOMAIN sessions : ~TotalsIntact(sessions[i])

\* C30, amended: delivering samples out of non-decreasing start_time order
\* does not corrupt the totals: after any such sequence of insertActivity
\* calls every Session's total_duration and activity_count are still the
\* sum and the count of its Activities.
C30_OutOfOrderKeepsTotals ==
    OutOfOrderDelivered => \A i \in DOMAIN sessions : TotalsIntact(sessions[i])

\* two samples with a duration were delivered to one session, the later one
\* first
C30_Witness ==
    \E i \in DOMAIN activities : \E j \in DOMAIN activities :
        /\ i < j
        /\ activities[i].start_time > activities[j].start_time
        /\ activities[i].session_id = activities[j].session_id
        /\ activities[i].duration > 0
        /\ activities[j].duration > 0

(***************************************************************************)
(* Claims about a NotificationManager that is created again.               *)
(***************************************************************************)
\* this NotificationManager was created on the date of now, after the one
\* the program started with
RecreatedToday ==
    started > StartNow /\ DateString(started) = DateString(now)

\* this step showed a summary notification
SummaryShownNow ==
    /\ Len(shown') = Len(shown) + 1
    /\ shown'[Len(shown')].family = "summary"

\* C31 (as claimed): the shown-today flag lives in memory only, so the
\* summary alarm of a NotificationManager re-created within a local day
\* shows a summary for that day when summaries are enabled and a minute or
\* more is tracked, whatever the alarm did on that day before the restart:
\* a restart within the day can so cause a second summary for one date.
C31_RestartDuplicatesSummary ==
    [][(/\ SummaryFired
        /\ RecreatedToday
        /\ isDailySummaryEnabled(settings)
        /\ TrackedToday >= MinTrackedMs) => SummaryShownNow]_vars

(***************************************************************************)
(* Claims about the numeric settings.                                      *)
(***************************************************************************)
\* the decimal numerals among the stored texts, each with its number
Numerals ==
    {<<"-1", 0 - 1>>, <<"0", 0>>, <<"1", 1>>, <<"6", 6>>, <<"23", 23>>,
     <<"24", 24>>, <<"30", 30>>}

\* the text is a numeral
IsNumeral(text) == \E p \in Numerals : p[1] = text

\* the number a numeral stands for
NumberOf(text) == (CHOOSE p \in Numerals : p[1] = text)[2]

\* the break interval (minutes) the stored text stands for: its number when
\* that is 1 or more, else the default
ClaimedBreakMinutes ==
    LET text == settings["break_interval_minutes"]
    IN IF IsNumeral(text) /\ NumberOf(text) >= 1 THEN NumberOf(text)
       ELSE DefaultBreakMinutes

\* the summary hour the stored text stands for: its number when that is in
\* 0..23, else the default
ClaimedSummaryHour ==
    LET text == settings["daily_summary_hour"]
    IN IF IsNumeral(text) /\ NumberOf(text) \in 0..MaxSummaryHour
       THEN NumberOf(text)
       ELSE DefaultSummaryHour

\* this step armed a break task
BreakArmedNow ==
    /\ breakTimer' # NoTimer
    /\ \E t \in timers' : t.id = breakTimer' /\ t \notin timers

\* this step armed a summary task (the constructor or the alarm callback)
SummaryArmedNow ==
    \E t \in SummaryTasks(timers') : t.id = dailySummaryTimer' /\ t \notin timers

HourOutOfRange ==
    LET text == settings["daily_summary_hour"]
    IN IsNumeral(text) /\ NumberOf(text) \notin 0..MaxSummaryHour

\* the stored summary hour brought to the nearest end of 0..23
ClampedSummaryHour ==
    LET n == NumberOf(settings["daily_summary_hour"])
    IN IF n < 0 THEN 0 ELSE IF n > MaxSummaryHour THEN MaxSummaryHour ELSE n

\* the summary task armed by this step is due at the next occurrence of hour
SummaryArmedAt(hour) ==
    \E t \in SummaryTasks(timers') :
        /\ t.id = dailySummaryTimer'
        /\ t.due = OccurrenceAfter(hour, now)

\* C33 (as claimed): daily_summary_hour is clamped to [0,23]: a stored value
\* below 0 is used as hour 0 and a stored value above 23 as hour 23 when the
\* next summary time is computed.
C33_HourClamped ==
    [][(SummaryArmedNow /\ HourOutOfRange)
           => SummaryArmedAt(ClampedSummaryHour)]_vars

\* C33, amended: daily_summary_hour is not clamped: a stored value below 0 or
\* above 23 is replaced by the default hour 18 when the next summary time is
\* computed.
C33_OutOfRangeHourIsDefault ==
    [][(SummaryArmedNow /\ HourOutOfRange)
           => SummaryArmedAt(DefaultSummaryHour)]_vars

\* a manager created under a stored -1 holds a task for 18:00, not 00:00
C33_Witness ==
    /\ settings["daily_summary_hour"] = "-1"
    /\ started > StartNow
    /\ \E t \in SummaryTasks(timers) :
          /\ t.id = dailySummaryTimer
          /\ t.due = OccurrenceAfter(DefaultSummaryHour, started)
          /\ t.due # OccurrenceAfter(0, started)

(***************************************************************************)
(* Claims about the pending tasks.                                         *)
(***************************************************************************)
\* C34 (as claimed): from the construction of the NotificationManager on,
\* as long as shutdown() is not called, exactly one daily-summary task is
\* pending at every moment, the one dailySummaryTimer names: each arming
\* cancels the previous handle and the alarm callback re-arms before it
\* returns.
C34_OneSummaryTaskPending ==
    /\ Cardinality(SummaryTasks(timers)) = 1
    /\ \E t \in SummaryTasks(timers) : t.id = dailySummaryTimer

\* shutdown() called in this state leaves no break and no summary task and
\* no handle, arms nothing, and a second call changes nothing
ShutdownClearsAll ==
    LET r == shutdownResult(timers, breakTimer, dailySummaryTimer)
    IN /\ BreakTasks(r.timers) = {}
       /\ SummaryTasks(r.timers) = {}
       /\ r.breakTimer = NoTimer
       /\ r.dailySummaryTimer = NoTimer
       /\ r.timers \subseteq timers
       /\ shutdownResult(r.timers, r.breakTimer, r.dailySummaryTimer) = r

\* shutdown() has been called: nothing else empties dailySummaryTimer
AfterShutdown == dailySummaryTimer = NoTimer

\* this step showed a notification of the family
ShownNow(family) ==
    /\ Len(shown') = Len(shown) + 1
    /\ shown'[Len(shown')].family = family

\* after shutdown() the summary family stays without task and notification;
\* the break family does too, until onActivityStarted() arms a break task
StaysQuiet ==
    /\ SummaryTasks(timers') = {}
    /\ dailySummaryTimer' = NoTimer
    /\ ~ShownNow("summary")
    /\ BreakTasks(timers) = {} =>
          /\ ~ShownNow("break")
          /\ BreakTasks(timers') # {} => onActivityStarted

\* C36: after shutdown() no break task and no daily-summary task is pending,
\* and no break or summary notification is shown afterwards unless a later
\* onActivityStarted() arms the break task again; shutdown arms nothing and
\* calling it twice is the same as calling it once.
C36_ShutdownQuiets ==
    /\ []ShutdownClearsAll
    /\ [][shutdown => (BreakTasks(timers') = {} /\ AfterShutdown')]_vars
    /\ [][AfterShutdown => StaysQuiet]_vars

\* shutdown() was called before the summary was due, the clock has passed
\* the due time and nothing has run or been shown
C36_Witness ==
    /\ AfterShutdown
    /\ breakTimer = NoTimer
    /\ timers = {}
    /\ now >= StartNow + 2 * HourMs
    /\ firings = <<>>
    /\ shown = <<>>

(***************************************************************************)
(* Claims about the break interval under repeated activity.                *)
(***************************************************************************)
\* when a pending task was armed
ArmedAt(t) == t.due - t.intervalMs

\* an onActivityStarted() with break reminders enabled leaves only break
\* tasks that start their full interval now
RestartsFullInterval ==
    (onActivityStarted /\ isBreakRemindersEnabled(settings)) =>
        /\ BreakTasks(timers') # {}
        /\ \A t \in BreakTasks(timers') :
              /\ ArmedAt(t) = now
              /\ t.intervalMs = getBreakIntervalMs(settings)

\* resetBreakTimer() called in this state, whatever is pending, leaves only
\* break tasks that start their full interval now
ResetRestarts ==
    LET r == resetBreakTimerResult(timers, breakTimer, settings, now)
    IN /\ BreakTasks(r.timers) # {}
       /\ \A t \in BreakTasks(r.timers) :
              /\ ArmedAt(t) = now
              /\ t.intervalMs = getBreakIntervalMs(settings)

\* no other step arms a break task or moves the due time of one
OnlyActivityRestarts ==
    ~(onActivityStarted /\ isBreakRemindersEnabled(settings)) =>
        BreakTasks(timers') \subseteq BreakTasks(timers)

\* a break notification comes from a pending task whose full interval has
\* passed since it was armed
ShownAfterFullInterval ==
    BreakShownInStep =>
        \E t \in BreakTasks(timers) :
            /\ t \notin timers'
            /\ now - ArmedAt(t) >= t.intervalMs

\* C35: every onActivityStarted() with break reminders enabled restarts the
\* full interval, so a break task fires only break_interval_minutes after
\* the last such call: while the calls keep coming with gaps shorter than
\* the interval, every pending break task is younger than its interval and
\* no break reminder is shown, however long the user works.
C35_ActivityRestartsInterval ==
    /\ []ResetRestarts
    /\ [][RestartsFullInterval]_vars
    /\ [][OnlyActivityRestarts]_vars
    /\ [][ShownAfterFullInterval]_vars

\* the user has worked longer than the 6-minute interval, the pending task
\* was armed again on the way and is not yet due, and no reminder was shown
C35_Witness ==
    /\ shown = <<>>
    /\ now > StartNow + 6 * MinuteMs
    /\ \E t \in BreakTasks(timers) :
          /\ t.id = breakTimer
          /\ t.intervalMs = 6 * MinuteMs
          /\ ArmedAt(t) > StartNow
          /\ t.due > now

(***************************************************************************)
(* Claims about the session an activity refers to.                         *)
(***************************************************************************)
\* C37: every Activity inserted through insertActivity has a non-null
\* session_id, and that id is the id of an existing Session row whose
\* app_name is the Activity's app_name; this holds from the moment the row
\* is written, before the session totals are updated.
C37_ActivityRefersToOwnAppSession ==
    \A i \in DOMAIN activities :
        /\ activities[i].session_id # NoSession
        /\ \E j \in DOMAIN sessions :
              /\ sessions[j].id = activities[i].session_id
              /\ sessions[j].app_name = activities[i].app_name

\* a sample of another app than the one before it has just been written,
\* each of the two under a session of its own app
C37_Witness ==
    /\ pending.pc = "update"
    /\ Len(activities) >= 2
    /\ LET n == Len(activities)
       IN /\ activities[n].app_name # activities[n - 1].app_name
          /\ activities[n].session_id # activities[n - 1].session_id

(***************************************************************************)
(* Claims about the growth of the goal ledger.                             *)
(***************************************************************************)
\* the step wrote the ledger
LedgerWritten ==
    settings'["goals_notified_today"] # settings["goals_notified_today"]

\* within one local date no write takes a category out of today's ledger
\* (a step that does not write leaves the stored text as it is)
LedgerGrows ==
    (LedgerWritten /\ DateString(now') = DateString(now))
        => TodayLedger \subseteq TodayLedger'

\* a written ledger carries the local date of the write
WrittenWithToday ==
    LedgerWritten =>
        /\ StoredLedger'.ok
        /\ StoredLedger'.value.date = DateString(now)

\* a category a write adds to the ledger is the category of a stored Goal
\* whose target the duration summed today has reached
RecordedWhenMet ==
    LedgerWritten =>
        \A c \in TodayLedger' \ TodayLedger :
            \E g \in StoredGoals :
                /\ g.categoryName = c
                /\ SummedToday(c) >= g.targetMs

\* C38: within one local date the persisted goal ledger only grows:
\* checkGoals() never removes a category from goals_notified_today while the
\* stored date is today, the stored date is the local date of the most
\* recent ledger write, and every category in the ledger was a Goal whose
\* target was met when it was recorded.
C38_LedgerOnlyGrows ==
    [][LedgerGrows /\ WrittenWithToday /\ RecordedWhenMet]_vars

\* the ledger of today holds two categories that were recorded by two calls
\* an hour or more apart
C38_Witness ==
    /\ TodayLedger = GoalCategories
    /\ \E i \in DOMAIN shown : \E j \in DOMAIN shown :
          /\ shown[i].family = "goal"
          /\ shown[j].family = "goal"
          /\ shown[i].at < shown[j].at
          /\ DateString(shown[i].at) = DateString(now)
          /\ shown[i].category # shown[j].category

=============================================================================
